---- MODULE Spec2Model ----
(***************************************************************************)
(* Single-elimination bracket controller (src/server/bracket-manager.ts)  *)
(* as a state machine: the tournament state, its handlers (initialize,     *)
(* recordWin, freeze, resume, reset, loadOrInitialize), the queries        *)
(* (canMatch, canSearch, getOpponent) and the CSV persistence; and the     *)
(* rating ladder of one format (LadderStore): load, updateRating, save.    *)
(***************************************************************************)
EXTENDS Integers, Sequences, FiniteSets, TLC

VARIABLES
    state,      \* BracketManager.state (BracketState)
    file,       \* content of config/bracket.csv, or NoFile
    queue,      \* write closures chained on writeLock that have not started (tickets)
    inflight,   \* file writes that have started and not finished
    rejected,   \* writeLock is a rejected promise
    clock,      \* number of calls and continuations of calls so far (history)
    started,    \* tickets of the writes in the order they started (history)
    suspended,  \* calls waiting at "await this.advanceWinner(...)", oldest first
    failedAt,   \* ticket of the latest write that failed, 0 if none has (history)
    called,     \* the latest call whose outcome is recorded: its name, the length of
                \* its player list, and whether it threw (history)
    ladder,     \* ladderCaches.get(formatid): the rows in order, or NotLoaded
    tsv,        \* content of config/ladders/<formatid>.tsv
    arrays,     \* the row arrays that load has built, in the order of their creation
    ladderCaches, \* ladderCaches.get(formatid) as an index into arrays, 0 if not set
    stores,     \* the LadderStore objects of the format: ladder, ladderPromise, saving
    microtasks, \* continuations that are ready to run, in the order they run
    streams,    \* write streams on the ladder file that have not finished
    hist        \* what callers have observed so far (history)

storeVars == <<arrays, ladderCaches, stores, microtasks, streams, hist>>

vars == <<state, file, queue, inflight, rejected, clock, started, suspended, failedAt, called, ladder, tsv,
          storeVars>>

----------------------------------------------------------------------------
(* Bounds of the model *)

\* Longest player list handed to initialize (8 gives a three-round bracket).
MaxPlayers == 8
\* Largest bestOf handed to initialize.
MaxBestOf == 3
\* Largest product of the number of players and the wins a series needs: long lists
\* are explored with short series, short lists with longer ones.
MaxTotalWins == 8
\* Longest player list for which randomize = true is explored (all Fisher-Yates outcomes).
MaxShuffled == 2
\* Longest player list in which two names canonicalize to the same identity.
MaxAliased == 4

----------------------------------------------------------------------------
(* Identities and display names *)

\* winner: ID | null
Null == "<null>"

Roster == <<"Alice", "Bob", "Carol", "Dave", "Eve", "Frank", "Grace", "Heidi", "Ivan">>

\* A second spelling of the first roster name: the same identity.
Alias == "ALICE"

\* toID from sim/dex: lowercase, strip everything but [a-z0-9]; on the names of the model.
toID(name) ==
    CASE name = "Alice" -> "alice"
      [] name = "ALICE" -> "alice"
      [] name = "Bob"   -> "bob"
      [] name = "Carol" -> "carol"
      [] name = "Dave"  -> "dave"
      [] name = "Eve"   -> "eve"
      [] name = "Frank" -> "frank"
      [] name = "Grace" -> "grace"
      [] name = "Heidi" -> "heidi"
      [] name = "Ivan"  -> "ivan"
      [] OTHER          -> name      \* already canonical (an ID, or the empty string)

Min(a, b) == IF a < b THEN a ELSE b
Max(a, b) == IF a > b THEN a ELSE b

RosterLen == Min(MaxPlayers, Len(Roster))

\* The identities the calls of the model may name, and the empty ID.
Ids == {toID(Roster[i]) : i \in 1..RosterLen}
IdArgs == Ids \cup {""}

\* The element of a one-element set.  Only({e : x \in {d}}) is e with x bound to the
\* value of d: a value that is used more than once is computed once.
Only(S) == CHOOSE r \in S : TRUE

\* Map<K, V> as a function whose domain is the set of keys.
EmptyMap == [k \in {} |-> 0]
MapSet(map, k, v) == [x \in (DOMAIN map) \cup {k} |-> IF x = k THEN v ELSE map[x]]
MapDelete(map, k) == [x \in (DOMAIN map) \ {k} |-> map[x]]
MapHas(map, k) == k \in DOMAIN map

\* Math.min(...) / Math.max(...) over a non-empty set of numbers
SetMin(S) == CHOOSE x \in S : \A y \in S : x <= y
SetMax(S) == CHOOSE x \in S : \A y \in S : x >= y

\* The indices of seq whose element satisfies Test, ascending (Array.filter keeps order).
RECURSIVE FilterIdx(_, _, _)
FilterIdx(seq, Test(_), i) ==
    IF i > Len(seq) THEN <<>>
    ELSE (IF Test(seq[i]) THEN <<i>> ELSE <<>>) \o FilterIdx(seq, Test, i + 1)

----------------------------------------------------------------------------
(* State *)

\* constructor, and the state reset() installs
EmptyState ==
    [format |-> "", participants |-> 0, bestOf |-> 0, currentRound |-> 0,
     matches |-> <<>>, playerMatches |-> EmptyMap, displayNames |-> EmptyMap,
     initialized |-> FALSE, frozen |-> FALSE]

NoFile == [exists |-> FALSE]

\* The ladder has not been read yet; there is no ladder file
NotLoaded == [loaded |-> FALSE, rows |-> <<>>]
NoTsv == [exists |-> FALSE, lines |-> <<>>]

\* No call has been recorded
NoCall == [op |-> "", count |-> 0, threw |-> FALSE]

\* Number of LadderStore objects of the format that are in use at the same time
\* (every command creates its own with new LadderStore(formatid)).
MaxStores == 2

StoreIds == 1..MaxStores

\* Lines 36-41: a store as its constructor leaves it.  ladder is an index into arrays
\* (0 for null); ladderPromise is "none" (null), "pending" or "resolved"; waiters are
\* the continuations that wait for ladderPromise, oldest first.
NewStore == [ladder |-> 0, ladderPromise |-> "none", saving |-> FALSE, waiters |-> <<>>]

\* Nothing observed yet: the number of file reads that have finished, the arrays that
\* callers of getLadder have received, and the outcome of the latest save() call
NoHist == [reads |-> 0, seen |-> {}, save |-> [store |-> 0, wasSaving |-> FALSE, went |-> FALSE]]

\* Line 27 and the state of a process that has not used the ladder
NoStores ==
    /\ arrays = <<>>
    /\ ladderCaches = 0
    /\ stores = [s \in StoreIds |-> NewStore]
    /\ microtasks = <<>>
    /\ streams = <<>>
    /\ hist = NoHist

----------------------------------------------------------------------------
(* Seeding *)

isPowerOfTwo(n) == n > 0 /\ \E k \in 0..n : 2^k = n

RECURSIVE Log2(_)
Log2(n) == IF n <= 1 THEN 0 ELSE 1 + Log2(n \div 2)

\* A seeding that keeps the list order: 1, 2, ..., numPlayers
buildBracketSeeds_InOrder(numPlayers) == [i \in 1..numPlayers |-> i]

RECURSIVE buildBracketSeeds(_)
buildBracketSeeds(numPlayers) ==
    IF numPlayers = 2 THEN <<1, 2>>
    ELSE LET previousRound == buildBracketSeeds(numPlayers \div 2)
         IN  [i \in 1..numPlayers |->
                 IF i % 2 = 1 THEN previousRound[(i + 1) \div 2]
                 ELSE numPlayers + 1 - previousRound[i \div 2]]

generateStandardPairings(numPlayers) ==
    LET seeds == buildBracketSeeds(numPlayers)
    IN  [i \in 1..(numPlayers \div 2) |-> <<seeds[2 * i - 1], seeds[2 * i]>>]

\* shuffleArray: every outcome of the Fisher-Yates loop, i from the last index down to
\* the second, j drawn from the indices up to i.
RECURSIVE ShuffleFrom(_, _)
ShuffleFrom(arr, i) ==
    IF i <= 1 THEN {arr}
    ELSE UNION { ShuffleFrom([arr EXCEPT ![i] = arr[j], ![j] = arr[i]], i - 1) : j \in 1..i }

shuffleArray(arr) == ShuffleFrom(arr, Len(arr))

----------------------------------------------------------------------------
(* initialize *)

NewMatch(round, matchId, p1Name, p2Name, status) ==
    [round |-> round, matchId |-> matchId,
     player1 |-> toID(p1Name), player2 |-> toID(p2Name),
     player1Display |-> p1Name, player2Display |-> p2Name,
     p1wins |-> 0, p2wins |-> 0, status |-> status,
     winner |-> Null, winnerDisplay |-> Null]

\* displayNames.set(toID(player), player) for each player in order
RECURSIVE StoreDisplayNames(_, _, _)
StoreDisplayNames(map, players, i) ==
    IF i > Len(players) THEN map
    ELSE StoreDisplayNames(MapSet(map, toID(players[i]), players[i]), players, i + 1)

\* playerMatches.set(match.player1, match); playerMatches.set(match.player2, match)
\* for the matches at indices i..last, in order
RECURSIVE RegisterPlayers(_, _, _, _)
RegisterPlayers(map, matches, i, last) ==
    IF i > last THEN map
    ELSE RegisterPlayers(MapSet(MapSet(map, matches[i].player1, i), matches[i].player2, i),
                         matches, i + 1, last)

\* Every placeholder put into round 2
RoundOfId_AllSecond(matchId, round, firstId, totalRounds) == 2

\* The round of the placeholder match with this matchId (rounds 2..totalRounds,
\* 2^(totalRounds - round) matches each, ids continuing after round 1).
RECURSIVE RoundOfId(_, _, _, _)
RoundOfId(matchId, round, firstId, totalRounds) ==
    LET matchesInRound == 2^(totalRounds - round)
    IN  IF matchId < firstId + matchesInRound THEN round
        ELSE RoundOfId(matchId, round + 1, firstId + matchesInRound, totalRounds)

\* The state initialize builds from a validated call (seededPlayers: the list after the
\* optional shuffle).
InitializedState(s, format, seededPlayers, bestOf) ==
    LET numPlayers == Len(seededPlayers)
        standardPairings == generateStandardPairings(numPlayers)
        numMatches == numPlayers \div 2
        totalRounds == Log2(numPlayers)
        matches ==
            [i \in 1..(numPlayers - 1) |->
                IF i <= numMatches
                THEN NewMatch(1, i, seededPlayers[standardPairings[i][1]],
                              seededPlayers[standardPairings[i][2]], "active")
                ELSE NewMatch(RoundOfId(i, 2, numMatches + 1, totalRounds), i, "", "", "pending")]
    IN  [format |-> format, participants |-> numPlayers, bestOf |-> bestOf,
         currentRound |-> 1, matches |-> matches,
         playerMatches |-> RegisterPlayers(EmptyMap, matches, 1, numMatches),
         displayNames |-> StoreDisplayNames(EmptyMap, seededPlayers, 1),
         initialized |-> TRUE, frozen |-> s.frozen]

\* initialize throws before changing anything
InitializeRejects(s, players) ==
    \/ s.initialized
    \/ Len(players) < 2
    \/ ~isPowerOfTwo(Len(players))

----------------------------------------------------------------------------
(* recordWin, advanceWinner *)

winsNeeded(bestOf) == (bestOf \div 2) + 1

\* this.state.matches.filter(m => m.round === round), as indices into matches
RoundMatches(s, round) ==
    LET Test(m) == m.round = round IN FilterIdx(s.matches, Test, 1)

\* Math.min(...currentRoundMatches.map(m => m.matchId))
firstMatchOfRound(s, round) ==
    LET idx == RoundMatches(s, round)
    IN  SetMin({s.matches[idx[k]].matchId : k \in 1..Len(idx)})

\* The index (into matches) of nextRoundMatches[nextMatchIndex] for the match at index ci,
\* or 0 when that entry is undefined.
NextMatchOf(s, m) ==
    LET nextRoundMatches == RoundMatches(s, m.round + 1)
        relativeMatchId == m.matchId - firstMatchOfRound(s, m.round)
        nextMatchIndex == relativeMatchId \div 2
    IN  IF nextMatchIndex + 1 \in 1..Len(nextRoundMatches)
        THEN nextRoundMatches[nextMatchIndex + 1] ELSE 0

\* Lines 447-457: the winner takes slot player1 if it is empty, else player2 if it is
\* empty; "none" is the integrity error (both slots taken).
FreeSlot(nextMatch) ==
    IF nextMatch.player1 = "" THEN "player1"
    ELSE IF nextMatch.player2 = "" THEN "player2"
    ELSE "none"

\* Lines 459-474: the next match with the winner placed becomes active and both players
\* are registered, or it becomes waiting.
StartOrWait(s, ni, placed) ==
    IF placed.player1 # "" /\ placed.player2 # ""
    THEN [s EXCEPT !.matches[ni] = [placed EXCEPT !.status = "active"],
                   !.playerMatches = MapSet(MapSet(@, placed.player1, ni), placed.player2, ni),
                   !.currentRound = IF placed.round > @ THEN placed.round ELSE @]
    ELSE [s EXCEPT !.matches[ni] = [placed EXCEPT !.status = "waiting"]]

\* advanceWinner(completedMatch)
advanceWinner(s, completedMatch) ==
    LET winner == completedMatch.winner
        nextRound == completedMatch.round + 1
        ni == NextMatchOf(s, completedMatch)
    IN  IF Len(RoundMatches(s, nextRound)) = 0 THEN s          \* tournament complete
        ELSE IF s.frozen THEN s                                 \* advancement blocked
        ELSE IF ni = 0 THEN s                                   \* could not find next match
        ELSE
          LET nextMatch == s.matches[ni]
              winnerDisplay == IF MapHas(s.displayNames, winner) /\ s.displayNames[winner] # ""
                               THEN s.displayNames[winner] ELSE winner
              slot == FreeSlot(nextMatch)
          IN  IF slot = "player1"
              THEN StartOrWait(s, ni, [nextMatch EXCEPT !.player1 = winner,
                                                        !.player1Display = winnerDisplay])
              ELSE IF slot = "player2"
              THEN StartOrWait(s, ni, [nextMatch EXCEPT !.player2 = winner,
                                                        !.player2Display = winnerDisplay])
              ELSE s                                            \* already has both players

\* Lines 357-368: the match recordWin acts on, as an index into matches; 0 when it
\* returns without recording.
RecordedMatch(s, winner, loser) ==
    IF ~MapHas(s.playerMatches, winner) THEN 0
    ELSE LET match == s.matches[s.playerMatches[winner]]
         IN  IF (match.player1 = winner /\ match.player2 = loser)
                \/ (match.player2 = winner /\ match.player1 = loser)
             THEN s.playerMatches[winner] ELSE 0

\* A series that only the first player can win
SeriesDecided_FirstOnly(match, bestOf) == match.p1wins >= winsNeeded(bestOf)

\* Lines 380-395: the series is decided
SeriesDecided(match, bestOf) ==
    match.p1wins >= winsNeeded(bestOf) \/ match.p2wins >= winsNeeded(bestOf)

\* A completion that leaves the two players in the player map
CompleteMatch_KeepsEntries(s, mi, scored) ==
    LET p1won == scored.p1wins >= winsNeeded(s.bestOf)
        done == [scored EXCEPT
                    !.winner = IF p1won THEN scored.player1 ELSE scored.player2,
                    !.winnerDisplay = IF p1won THEN scored.player1Display
                                      ELSE scored.player2Display,
                    !.status = "complete"]
    IN  [s EXCEPT !.matches[mi] = done]

\* Lines 383-389: winner fields, status, removal from the player map
CompleteMatch(s, mi, scored) ==
    LET p1won == scored.p1wins >= winsNeeded(s.bestOf)
        done == [scored EXCEPT
                    !.winner = IF p1won THEN scored.player1 ELSE scored.player2,
                    !.winnerDisplay = IF p1won THEN scored.player1Display
                                      ELSE scored.player2Display,
                    !.status = "complete"]
    IN  [s EXCEPT !.matches[mi] = done,
                  !.playerMatches = MapDelete(MapDelete(@, scored.player1), scored.player2)]

\* The state after recordWin(winner, loser) when RecordedMatch is mi > 0
recordWin(s, winner, loser) ==
    LET mi == RecordedMatch(s, winner, loser)
        match == s.matches[mi]
        scored == IF match.player1 = winner
                  THEN [match EXCEPT !.p1wins = @ + 1]
                  ELSE [match EXCEPT !.p2wins = @ + 1]
    IN  IF SeriesDecided(scored, s.bestOf)
        THEN Only({advanceWinner(completed, completed.matches[mi]) :
                      completed \in {CompleteMatch(s, mi, scored)}})
        ELSE [s EXCEPT !.matches[mi] = scored]

----------------------------------------------------------------------------
(* freeze, resume *)

\* freeze / resume throw before changing anything
\* freeze that refuses only a controller without a bracket
FreezeRejects_OnlyIdle(s) == ~s.initialized

FreezeRejects(s) == ~s.initialized \/ s.frozen
ResumeRejects(s) == ~s.initialized \/ ~s.frozen

freeze(s) == [s EXCEPT !.frozen = TRUE]

\* Math.max(...matches.map(m => m.round)), 1 for no matches
maxRound(s) ==
    IF Len(s.matches) > 0 THEN SetMax({s.matches[i].round : i \in 1..Len(s.matches)}) ELSE 1

\* Lines 701-703: the complete matches below the last round, as indices, in array order
completedMatches(s) ==
    LET Test(m) == m.status = "complete" /\ m.winner # Null /\ m.winner # ""
                   /\ m.round < maxRound(s)
    IN  FilterIdx(s.matches, Test, 1)

\* Lines 706-732: one pass of the loop over completedMatches, from position k
RECURSIVE ResumeLoop(_, _, _)
ResumeLoop(s, todo, k) ==
    IF k > Len(todo) THEN s
    ELSE LET match == s.matches[todo[k]]
             ni == NextMatchOf(s, match)
         IN  IF Len(RoundMatches(s, match.round + 1)) = 0 THEN ResumeLoop(s, todo, k + 1)
             ELSE IF ni = 0 THEN ResumeLoop(s, todo, k + 1)
             ELSE IF s.matches[ni].player1 = match.winner \/ s.matches[ni].player2 = match.winner
                  THEN ResumeLoop(s, todo, k + 1)               \* already advanced
             ELSE Only({ResumeLoop(advanced, todo, k + 1) :
                           advanced \in {advanceWinner(s, match)}})

resume(s) ==
    Only({ResumeLoop(unfrozen, completedMatches(unfrozen), 1) :
             unfrozen \in {[s EXCEPT !.frozen = FALSE]}})

----------------------------------------------------------------------------
(* Queries *)

getEarliestIncompleteRound(s) ==
    LET incompleteRounds ==
            {s.matches[i].round : i \in {j \in 1..Len(s.matches) :
                                           s.matches[j].status \in {"active", "waiting"}}}
    IN  IF incompleteRounds = {} THEN s.currentRound ELSE SetMin(incompleteRounds)

canMatch(s, userid1, userid2) ==
    IF ~s.initialized THEN FALSE
    ELSE IF ~MapHas(s.playerMatches, userid1) THEN FALSE
    ELSE LET match == s.matches[s.playerMatches[userid1]]
         IN  IF match.status # "active" THEN FALSE
             ELSE IF s.frozen /\ match.round # getEarliestIncompleteRound(s) THEN FALSE
             ELSE \/ (match.player1 = userid1 /\ match.player2 = userid2)
                  \/ (match.player2 = userid1 /\ match.player1 = userid2)

canSearch(s, userid) ==
    IF ~s.initialized THEN FALSE
    ELSE IF ~MapHas(s.playerMatches, userid) THEN FALSE
    ELSE LET match == s.matches[s.playerMatches[userid]]
         IN  IF match.status # "active" /\ match.status # "waiting" THEN FALSE
             ELSE IF s.frozen /\ match.round # getEarliestIncompleteRound(s) THEN FALSE
             ELSE TRUE

\* the opponent's ID, or Null
getOpponent(s, playerid) ==
    IF ~MapHas(s.playerMatches, playerid) THEN Null
    ELSE LET match == s.matches[s.playerMatches[playerid]]
         IN  IF match.status # "active" THEN Null
             ELSE IF match.player1 = playerid THEN match.player2 ELSE match.player1

----------------------------------------------------------------------------
(* The battle-end hook *)

\* A hook that takes a reported winner who is not the first player for the second
onBattleEnd_AnyWinner(s, winnerid, playerids) ==
    IF ~s.initialized THEN s
    ELSE IF Len(playerids) # 2 THEN s
    ELSE LET p1id == playerids[1]
             p2id == playerids[2]
         IN  IF getOpponent(s, p1id) # p2id \/ getOpponent(s, p2id) # p1id THEN s
             ELSE LET winner == IF winnerid = p1id THEN p1id ELSE p2id
                      loser == IF winnerid = p1id THEN p2id ELSE p1id
                  IN  IF RecordedMatch(s, winner, loser) = 0 THEN s
                      ELSE recordWin(s, winner, loser)

\* handlers.onBattleEnd with Config.bracketmode set: the state after the notification.
\* playerids: a sequence of identities.  The hook has no throw statement, and the
\* promise of recordWin has a catch handler: nothing is raised to the caller.
onBattleEnd(s, winnerid, playerids) ==
    IF ~s.initialized THEN s
    ELSE IF Len(playerids) # 2 THEN s
    ELSE LET p1id == playerids[1]
             p2id == playerids[2]
         IN  IF getOpponent(s, p1id) # p2id \/ getOpponent(s, p2id) # p1id THEN s
             ELSE IF winnerid # p1id /\ winnerid # p2id THEN s
             ELSE LET winner == IF winnerid = p1id THEN p1id ELSE p2id
                      loser == IF winnerid = p1id THEN p2id ELSE p1id
                  IN  IF RecordedMatch(s, winner, loser) = 0 THEN s
                      ELSE recordWin(s, winner, loser)

----------------------------------------------------------------------------
(* Persistence: the CSV text as its fields.  A row holds the eleven columns as       *)
(* written; a null winner or winnerDisplay is written as the empty string.           *)

\* Config.brackettournament.format / .bestOf: the defaults a file without metadata gets
ConfigFormat == "gen1ou"
ConfigBestOf == 1

OrEmpty(v) == IF v = Null THEN "" ELSE v

\* Lines 281-287: the content one write closure builds from the state it sees
saveContent(s) ==
    [exists |-> TRUE, metadata |-> TRUE,
     format |-> s.format, bestOf |-> s.bestOf,
     participants |-> s.participants, frozen |-> s.frozen,
     rows |-> [i \in 1..Len(s.matches) |->
                 LET m == s.matches[i]
                 IN  [columns |-> 11, round |-> m.round, matchId |-> m.matchId,
                      player1 |-> m.player1, player2 |-> m.player2,
                      player1Display |-> m.player1Display,
                      player2Display |-> m.player2Display,
                      p1wins |-> m.p1wins, p2wins |-> m.p2wins, status |-> m.status,
                      winner |-> OrEmpty(m.winner),
                      winnerDisplay |-> OrEmpty(m.winnerDisplay)]]]

\* Lines 168-169: lines.length < 3 (metadata, header and at least one match; a file
\* without metadata has only the header before the matches)
TooShort(f) == (IF f.metadata THEN 2 ELSE 1) + Len(f.rows) < 3

\* Lines 207-232: one line parsed into a match
ParseRow(row) ==
    LET legacy == row.columns < 11
        winnerText == row.winner
        winnerDisplayText == IF legacy THEN row.winner ELSE row.winnerDisplay
    IN  [round |-> row.round, matchId |-> row.matchId,
         player1 |-> toID(row.player1), player2 |-> toID(row.player2),
         player1Display |-> IF legacy THEN row.player1 ELSE row.player1Display,
         player2Display |-> IF legacy THEN row.player2 ELSE row.player2Display,
         p1wins |-> row.p1wins, p2wins |-> row.p2wins,
         status |-> IF row.status = "" THEN "pending" ELSE row.status,
         winner |-> IF winnerText # "" THEN toID(winnerText) ELSE Null,
         winnerDisplay |-> IF winnerDisplayText # "" THEN winnerDisplayText ELSE Null]

\* Lines 236-245 for the matches from index i on: display names and the player lookup
RECURSIVE LoadMaps(_, _)
LoadMaps(s, i) ==
    IF i > Len(s.matches) THEN s
    ELSE LET match == s.matches[i]
             d1 == IF match.player1Display # ""
                   THEN MapSet(s.displayNames, match.player1, match.player1Display)
                   ELSE s.displayNames
             d2 == IF match.player2Display # ""
                   THEN MapSet(d1, match.player2, match.player2Display) ELSE d1
             d3 == IF match.winnerDisplay # Null /\ match.winner # Null
                   THEN MapSet(d2, match.winner, match.winnerDisplay) ELSE d2
             live == match.status \in {"active", "waiting"}
             p1 == IF live /\ match.player1 # ""
                   THEN MapSet(s.playerMatches, match.player1, i) ELSE s.playerMatches
             p2 == IF live /\ match.player2 # "" THEN MapSet(p1, match.player2, i) ELSE p1
         IN  LoadMaps([s EXCEPT !.displayNames = d3, !.playerMatches = p2], i + 1)

\* loadFromCSV returns true
Loadable(f) == f.exists /\ ~TooShort(f)

\* The state loadFromCSV leaves in a controller that was in state s, for a Loadable file
loadFromCSV(s, f) ==
    LET matches == [i \in 1..Len(f.rows) |-> ParseRow(f.rows[i])]
        header == IF f.metadata
                  THEN [s EXCEPT !.format = f.format, !.bestOf = f.bestOf,
                                 !.participants = f.participants, !.frozen = f.frozen]
                  ELSE [s EXCEPT !.format = ConfigFormat, !.bestOf = ConfigBestOf,
                                 !.frozen = FALSE]
        parsed == LoadMaps([header EXCEPT !.matches = matches,
                                          !.playerMatches = EmptyMap,
                                          !.displayNames = EmptyMap], 1)
        activeRounds == {matches[i].round : i \in {j \in 1..Len(matches) :
                            matches[j].status \in {"active", "waiting", "complete"}}}
        firstRoundMatches == {i \in 1..Len(matches) : matches[i].round = 1}
    IN  [parsed EXCEPT
            !.currentRound = IF activeRounds # {} THEN SetMax(activeRounds) ELSE 1,
            !.participants = IF @ = 0 THEN Cardinality(firstRoundMatches) * 2 ELSE @,
            !.initialized = TRUE]

----------------------------------------------------------------------------
(* Inputs of the calls *)

Prefix(n) == SubSeq(Roster, 1, n)

\* Player lists: the first n roster names, and the same with the name at position 2 or
\* at the last position replaced by a second spelling of the first name
\* (createbracketshuffle passes such a list on unchecked).
PlayerLists ==
    {Prefix(n) : n \in 1..RosterLen}
    \cup {[Prefix(n) EXCEPT ![i] = Alias] :
             n \in {k \in 2..Min(MaxAliased, RosterLen) : isPowerOfTwo(k)}, i \in {2}}
    \cup {[Prefix(n) EXCEPT ![n] = Alias] :
             n \in {k \in 2..Min(MaxAliased, RosterLen) : isPowerOfTwo(k)}}

BestOfs == 1..MaxBestOf

Formats == {"gen1ou"}

\* The initialize calls the model explores.  A call on an initialized controller throws
\* whatever its arguments are: one such call stands for all of them.
Explored(players, bestOf, randomize) ==
    /\ Len(players) * winsNeeded(bestOf) <= MaxTotalWins
    /\ randomize => Len(players) <= MaxShuffled
    /\ state.initialized => (players = Prefix(2) /\ bestOf = 1 /\ ~randomize)

\* The recordWin calls the model explores: every call that records, and one of the
\* calls that return without recording (they all leave everything as it is).
ExploredWin(winner, loser) ==
    RecordedMatch(state, winner, loser) # 0 \/ (winner = "" /\ loser = "")

\* Config.brackettournament.playerList, .autoInit
ConfigPlayerList == Prefix(2)
AutoInits == BOOLEAN

----------------------------------------------------------------------------
(* Spec: the calls, each with its file write run to the end before the next call.    *)

ioVars == <<queue, inflight, rejected, clock, started, suspended, failedAt>>

Initialize(format, players, bestOf, randomize) ==
    /\ IF InitializeRejects(state, players)
       THEN UNCHANGED vars                                       \* throws
       ELSE /\ \E seededPlayers \in (IF randomize THEN shuffleArray(players) ELSE {players}) :
                 state' = InitializedState(state, format, seededPlayers, bestOf)
            /\ file' = saveContent(state')
            /\ UNCHANGED <<ioVars, called, ladder, tsv, storeVars>>

RecordWin(winner, loser) ==
    IF RecordedMatch(state, winner, loser) = 0
    THEN UNCHANGED vars                                          \* warns and returns
    ELSE /\ state' = recordWin(state, winner, loser)
         /\ file' = saveContent(state')
         /\ UNCHANGED <<ioVars, called, ladder, tsv, storeVars>>

Freeze ==
    IF FreezeRejects(state)
    THEN UNCHANGED vars                                          \* throws
    ELSE /\ state' = freeze(state)
         /\ file' = saveContent(state')
         /\ UNCHANGED <<ioVars, called, ladder, tsv, storeVars>>

Resume ==
    IF ResumeRejects(state)
    THEN UNCHANGED vars                                          \* throws
    ELSE /\ state' = resume(state)
         /\ file' = saveContent(state')
         /\ UNCHANGED <<ioVars, called, ladder, tsv, storeVars>>

\* reset: a new empty state, and the file unlinked
Reset ==
    /\ state' = EmptyState
    /\ file' = NoFile
    /\ UNCHANGED <<ioVars, called, ladder, tsv, storeVars>>

\* loadOrInitialize in a new process (constructor state): the file is loaded; without a
\* loadable file the controller stays idle, or initializes from Config when autoInit is set.
LoadOrInitialize(autoInit) ==
    /\ IF Loadable(file)
       THEN state' = loadFromCSV(EmptyState, file) /\ file' = file
       ELSE IF ~autoInit
       THEN state' = EmptyState /\ file' = file
       ELSE /\ state' = InitializedState(EmptyState, ConfigFormat, ConfigPlayerList, ConfigBestOf)
            /\ file' = saveContent(state')
    /\ UNCHANGED <<ioVars, called, ladder, tsv, storeVars>>

Init ==
    /\ state = EmptyState
    /\ file = NoFile
    /\ queue = <<>>
    /\ inflight = {}
    /\ rejected = FALSE
    /\ clock = 0
    /\ started = <<>>
    /\ suspended = <<>>
    /\ failedAt = 0
    /\ called = NoCall
    /\ ladder = NotLoaded
    /\ NoStores
    /\ tsv = NoTsv

Next ==
    \/ \E format \in Formats, players \in PlayerLists, bestOf \in BestOfs, randomize \in BOOLEAN :
          Explored(players, bestOf, randomize) /\ Initialize(format, players, bestOf, randomize)
    \/ \E winner \in IdArgs, loser \in IdArgs :
          ExploredWin(winner, loser) /\ RecordWin(winner, loser)
    \/ Freeze
    \/ Resume
    \/ Reset
    \/ \E autoInit \in AutoInits : LoadOrInitialize(autoInit)

Spec == Init /\ [][Next]_vars

\* One process from its start: the calls without a restart
NextPlay ==
    \/ \E format \in Formats, players \in PlayerLists, bestOf \in BestOfs, randomize \in BOOLEAN :
          Explored(players, bestOf, randomize) /\ Initialize(format, players, bestOf, randomize)
    \/ \E winner \in IdArgs, loser \in IdArgs :
          ExploredWin(winner, loser) /\ RecordWin(winner, loser)
    \/ Freeze
    \/ Resume
    \/ Reset

SpecPlay == Init /\ [][NextPlay]_vars

\* Longest player list of the tournaments played to their end (4 gives two rounds).
MaxFairPlayers == 4

\* One tournament played to its end: no reset
NextTournament ==
    \/ \E format \in Formats, players \in PlayerLists, bestOf \in BestOfs, randomize \in BOOLEAN :
          /\ Len(players) <= MaxFairPlayers
          /\ Explored(players, bestOf, randomize)
          /\ Initialize(format, players, bestOf, randomize)
    \/ \E winner \in IdArgs, loser \in IdArgs :
          ExploredWin(winner, loser) /\ RecordWin(winner, loser)
    \/ Freeze
    \/ Resume

\* A battle of an active match ends and is recorded
PlayActive ==
    \E winner \in Ids, loser \in Ids :
        /\ RecordedMatch(state, winner, loser) # 0
        /\ state.matches[RecordedMatch(state, winner, loser)].status = "active"
        /\ RecordWin(winner, loser)

\* The tournament does not stay frozen, and the active matches are played
SpecFair == Init /\ [][NextTournament]_vars /\ WF_vars(Resume) /\ WF_vars(PlayActive)

----------------------------------------------------------------------------
(* The write queue: calls that overlap, writes that take time *)

\* Time (calls and continuations so far) after which no new call is made; the calls
\* that have started run to their end.
MaxClock == 6
\* Longest player list of the overlapping calls.
MaxIOPlayers == 4

IOPlayerLists == {Prefix(n) : n \in {m \in 2..Min(MaxIOPlayers, RosterLen) : isPowerOfTwo(m)}}

\* Line 276, this.writeLock = this.writeLock.then(closure): the closure joins the chain
\* behind every closure queued before it.  since is the time of the requesting mutation.
saveToCSV(q, now, since) == Append(q, [ticket |-> now, since |-> since])

\* A chain that does not wait for the write before: a closure runs as soon as it is queued
ChainReady_NoWait(writing, failed) == ~failed

\* Line 276: a closure runs when the promise before it in the chain has been fulfilled:
\* no write is executing and none has been rejected.
ChainReady(writing, failed) == writing = {} /\ ~failed

\* Lines 706-732 from position k of completedMatches up to the next await (line 731) or
\* the end of the loop: <<state, position after the await>>, position 0 at the end.
\* todo holds the match objects the filter of line 701 returned; the calls explored here
\* never change a complete match, and a reset leaves the objects as they are.
RECURSIVE ResumeUntilAwait(_, _, _)
ResumeUntilAwait(s, todo, k) ==
    IF k > Len(todo) THEN <<s, 0>>
    ELSE LET match == todo[k]
             ni == NextMatchOf(s, match)
         IN  IF Len(RoundMatches(s, match.round + 1)) = 0 THEN ResumeUntilAwait(s, todo, k + 1)
             ELSE IF ni = 0 THEN ResumeUntilAwait(s, todo, k + 1)
             ELSE IF s.matches[ni].player1 = match.winner \/ s.matches[ni].player2 = match.winner
                  THEN ResumeUntilAwait(s, todo, k + 1)
             ELSE <<advanceWinner(s, match), k + 1>>

\* A new call, counted
Tick == clock < MaxClock /\ clock' = clock + 1

\* The call went on to saveToCSV without an await in between
SavesAtOnce == queue' = saveToCSV(queue, clock', clock') /\ suspended' = suspended

IOInitialize(format, players, bestOf) ==
    /\ ~InitializeRejects(state, players)
    /\ Tick
    /\ state' = InitializedState(state, format, players, bestOf)
    /\ SavesAtOnce
    /\ UNCHANGED <<file, inflight, rejected, started, failedAt, called, ladder, tsv, storeVars>>

\* recordWin up to its first await: line 394 when the match is decided, else line 398
IORecordWin(winner, loser) ==
    /\ RecordedMatch(state, winner, loser) # 0
    /\ Tick
    /\ state' = recordWin(state, winner, loser)
    /\ IF state'.matches[RecordedMatch(state, winner, loser)].status = "complete"
       THEN /\ suspended' = Append(suspended, [op |-> "recordWin", since |-> clock',
                                               todo |-> <<>>, k |-> 0])
            /\ queue' = queue
       ELSE SavesAtOnce
    /\ UNCHANGED <<file, inflight, rejected, started, failedAt, called, ladder, tsv, storeVars>>

IOFreeze ==
    /\ ~FreezeRejects(state)
    /\ Tick
    /\ state' = freeze(state)
    /\ SavesAtOnce
    /\ UNCHANGED <<file, inflight, rejected, started, failedAt, called, ladder, tsv, storeVars>>

\* resume up to its first await: line 731 if a winner has to advance, else line 734
IOResume ==
    /\ ~ResumeRejects(state)
    /\ Tick
    /\ LET unfrozen == [state EXCEPT !.frozen = FALSE]
           found == completedMatches(unfrozen)
           todo == [i \in 1..Len(found) |-> unfrozen.matches[found[i]]]
           run == ResumeUntilAwait(unfrozen, todo, 1)
       IN  /\ state' = run[1]
           /\ IF run[2] = 0 THEN SavesAtOnce
              ELSE /\ suspended' = Append(suspended, [op |-> "resume", since |-> clock',
                                                      todo |-> todo, k |-> run[2]])
                   /\ queue' = queue
    /\ UNCHANGED <<file, inflight, rejected, started, failedAt, called, ladder, tsv, storeVars>>

\* The call that has waited longest at "await this.advanceWinner(...)" goes on: recordWin
\* to saveToCSV, resume around its loop to the next await or to saveToCSV.
Continue ==
    /\ suspended # <<>>
    /\ clock' = clock + 1
    /\ LET call == Head(suspended)
           run == IF call.op = "resume" THEN ResumeUntilAwait(state, call.todo, call.k)
                  ELSE <<state, 0>>
       IN  /\ state' = run[1]
           /\ IF run[2] = 0
              THEN /\ queue' = saveToCSV(queue, clock', call.since)
                   /\ suspended' = Tail(suspended)
              ELSE /\ suspended' = Append(Tail(suspended), [call EXCEPT !.k = run[2]])
                   /\ queue' = queue
    /\ UNCHANGED <<file, inflight, rejected, started, failedAt, called, ladder, tsv, storeVars>>

\* Lines 277-287: the first closure of the chain runs and builds its content
StartWrite ==
    /\ queue # <<>>
    /\ ChainReady(inflight, rejected)
    /\ inflight' = inflight \cup {[ticket |-> Head(queue).ticket, since |-> Head(queue).since,
                                   asOf |-> clock, content |-> saveContent(state)]}
    /\ started' = Append(started, Head(queue).ticket)
    /\ queue' = Tail(queue)
    /\ UNCHANGED <<state, file, rejected, clock, suspended, failedAt, called, ladder, tsv, storeVars>>

\* Line 290: the write replaces the file
FinishWrite ==
    /\ \E w \in inflight : file' = w.content /\ inflight' = inflight \ {w}
    /\ UNCHANGED <<state, queue, rejected, clock, started, suspended, failedAt, called, ladder, tsv, storeVars>>

\* Lines 292-294: the write fails, the closure rethrows and its promise is rejected
FailWrite ==
    /\ \E w \in inflight : inflight' = inflight \ {w} /\ failedAt' = w.ticket
    /\ rejected' = TRUE
    /\ UNCHANGED <<state, file, queue, clock, started, suspended, called, ladder, tsv, storeVars>>

\* Line 276: a closure chained by then() behind a rejected promise is not run
SkipWrite ==
    /\ queue # <<>>
    /\ rejected
    /\ queue' = Tail(queue)
    /\ UNCHANGED <<state, file, inflight, rejected, clock, started, suspended, failedAt, called, ladder, tsv, storeVars>>

\* reset: the state is replaced and the file unlinked, whatever the chain is doing
IOReset ==
    /\ state.initialized
    /\ Tick
    /\ state' = EmptyState
    /\ file' = NoFile
    /\ UNCHANGED <<queue, inflight, rejected, started, suspended, failedAt, called, ladder, tsv, storeVars>>

\* The process ends and a new one starts with loadOrInitialize (autoInit off): a new
\* controller, nothing queued, nothing suspended, no write executing.
IORestart ==
    /\ Tick
    /\ state' = IF Loadable(file) THEN loadFromCSV(EmptyState, file) ELSE EmptyState
    /\ queue' = <<>> /\ inflight' = {} /\ rejected' = FALSE /\ suspended' = <<>>
    /\ UNCHANGED <<file, started, failedAt, called, ladder, tsv, storeVars>>

NextIO ==
    \/ \E format \in Formats, players \in IOPlayerLists : IOInitialize(format, players, 1)
    \/ \E winner \in Ids, loser \in Ids : IORecordWin(winner, loser)
    \/ IOFreeze
    \/ IOResume
    \/ Continue
    \/ StartWrite
    \/ FinishWrite
    \/ FailWrite
    \/ SkipWrite
    \/ IOReset
    \/ IORestart

SpecIO == Init /\ [][NextIO]_vars

----------------------------------------------------------------------------
(* The calls with their outcome: what a caller sees of each call is whether it threw *)

\* Longest player list of the calls whose outcome is recorded (from the empty list on).
MaxAdminPlayers == 4

AdminPlayerLists == {Prefix(n) : n \in 0..Min(MaxAdminPlayers, RosterLen)}

Outcome(op, count, threw) == [op |-> op, count |-> count, threw |-> threw]

\* Lines 68-77: the throws come before anything is assigned
AdminInitialize(format, players, bestOf) ==
    /\ called' = Outcome("initialize", Len(players), InitializeRejects(state, players))
    /\ IF InitializeRejects(state, players)
       THEN UNCHANGED <<state, file>>
       ELSE /\ state' = InitializedState(state, format, players, bestOf)
            /\ file' = saveContent(state')
    /\ UNCHANGED <<ioVars, ladder, tsv, storeVars>>

\* recordWin never throws: it records, or warns and returns
AdminRecordWin(winner, loser) ==
    /\ called' = Outcome("recordWin", 0, FALSE)
    /\ IF RecordedMatch(state, winner, loser) = 0
       THEN UNCHANGED <<state, file>>
       ELSE /\ state' = recordWin(state, winner, loser)
            /\ file' = saveContent(state')
    /\ UNCHANGED <<ioVars, ladder, tsv, storeVars>>

\* Lines 670-676
AdminFreeze ==
    /\ called' = Outcome("freeze", 0, FreezeRejects(state))
    /\ IF FreezeRejects(state)
       THEN UNCHANGED <<state, file>>
       ELSE /\ state' = freeze(state)
            /\ file' = saveContent(state')
    /\ UNCHANGED <<ioVars, ladder, tsv, storeVars>>

\* Lines 687-693
AdminResume ==
    /\ called' = Outcome("resume", 0, ResumeRejects(state))
    /\ IF ResumeRejects(state)
       THEN UNCHANGED <<state, file>>
       ELSE /\ state' = resume(state)
            /\ file' = saveContent(state')
    /\ UNCHANGED <<ioVars, ladder, tsv, storeVars>>

AdminReset ==
    /\ called' = Outcome("reset", 0, FALSE)
    /\ state' = EmptyState
    /\ file' = NoFile
    /\ UNCHANGED <<ioVars, ladder, tsv, storeVars>>

NextAdmin ==
    \/ \E format \in Formats, players \in AdminPlayerLists : AdminInitialize(format, players, 1)
    \/ \E winner \in Ids, loser \in Ids : AdminRecordWin(winner, loser)
    \/ AdminFreeze
    \/ AdminResume
    \/ AdminReset

SpecAdmin == Init /\ [][NextAdmin]_vars

----------------------------------------------------------------------------
(* Rating arithmetic.  The ratings are IEEE doubles in the source; here a number is   *)
(* an integer count of hundredths (elo 1016.0 is 101600), and the transcendental      *)
(* functions are computed in fixed point, to within one unit of the last place kept.  *)


\* Math.round(a / b) for b > 0: the nearest integer, halves upwards
RoundDiv(a, b) == (2 * a + b) \div (2 * b)

\* <<floor(x * y / 10^6), x * y mod 10^6>> for x, y >= 0, by the thousands of x and y,
\* so that no intermediate value leaves the 32-bit range
FixMulQR(x, y) ==
    Only({LET low == v[2] * v[4]
              mid == v[1] * v[4] + v[2] * v[3] + ((v[2] * v[4]) \div 1000)
          IN  <<v[1] * v[3] + (mid \div 1000), (mid % 1000) * 1000 + (low % 1000)>> :
          v \in {<<x \div 1000, x % 1000, y \div 1000, y % 1000>>}})

FixMul(x, y) == FixMulQR(x, y)[1]

\* x * y / 10^6 rounded to the nearest integer
FixMulRound(x, y) ==
    Only({IF qr[2] >= 500000 THEN qr[1] + 1 ELSE qr[1] : qr \in {FixMulQR(x, y)}})

\* d * k / 10^6 rounded to the nearest integer, for k >= 0 and d of either sign
SignedMul(k, d) ==
    Only({IF v >= 0 THEN FixMulRound(k, v) ELSE -FixMulRound(k, -v) : v \in {d}})

\* n * 10^6 / c rounded to the nearest integer, for n >= 0 and 0 < c <= 21000000:
\* three steps of long division in base 100
LongDiv6(n, c) ==
    Only({Only({Only({Only({
        (v[1] \div v[2]) * 1000000 + ((r0 * 100) \div v[2]) * 10000
        + ((r1 * 100) \div v[2]) * 100 + ((r2 * 100) \div v[2])
        + (IF 2 * ((r2 * 100) % v[2]) >= v[2] THEN 1 ELSE 0) :
        r2 \in {(r1 * 100) % v[2]}}) :
        r1 \in {(r0 * 100) % v[2]}}) :
        r0 \in {v[1] % v[2]}}) :
        v \in {<<n, c>>}})

\* 10^(k/16) in millionths, k = 0..15
Pow10Sixteenths ==
    <<1000000, 1154782, 1333521, 1539927, 1778279, 2053525, 2371374, 2738420,
      3162278, 3651741, 4216965, 4869675, 5623413, 6493816, 7498942, 8659643>>

\* 10^x for 0 <= x < 1, x and the result in millionths: 10^(k/16) * e^(f * ln 10) with
\* the exponential taken to the fourth power of its series
Pow10Frac(x6) ==
    Only({Only({Only({Only({
        FixMulRound(Pow10Sixteenths[(x \div 62500) + 1],
                    1000000 + y + (y2 \div 2) + (y3 \div 6) + (FixMul(y3, y) \div 24)) :
        y3 \in {FixMul(y2, y)}}) :
        y2 \in {FixMul(y, y)}}) :
        y \in {FixMul(x % 62500, 2302585)}}) :
        x \in {x6}})

\* 1 / (1 + 10^x) for x >= 0, as 10^(-x) / (1 + 10^(-x)); x and the result in millionths
SigmaPos(x6) ==
    Only({IF x \div 1000000 >= 6 THEN 0
          ELSE Only({LongDiv6(q, 1000000 + q) :
                     q \in {RoundDiv(IF x % 1000000 > 0
                                     THEN Pow10Frac(1000000 - (x % 1000000))
                                     ELSE 10000000,
                                     10^((x \div 1000000) + 1))}}) :
          x \in {x6}})

\* 1 / (1 + 10^x), x and the result in millionths
Sigma6(x6) ==
    Only({IF x < 0 THEN 1000000 - SigmaPos(-x) ELSE SigmaPos(x) : x \in {x6}})

\* One step of Newton's iteration for the square root of a, a and x in millionths
NewtonG(a, x) == Only({(v[2] + LongDiv6(v[1], v[2])) \div 2 : v \in {<<a, x>>}})

\* Math.sqrt of a number of millionths between 0.4 and 1
SqrtG(a) == Only({NewtonG(v, NewtonG(v, NewtonG(v, NewtonG(v, 1000000)))) : v \in {a}})

\* One step of Newton's iteration for the square root of a, a and x in hundredths
NewtonRd(a, x) == Only({(v[2] + (v[1] * 100) \div v[2]) \div 2 : v \in {<<a, x>>}})

\* Math.sqrt of a number of hundredths that lies between from^2 / 2.1 and from^2
SqrtRd(a, from) ==
    Only({IF v = 0 THEN 0 ELSE NewtonRd(v, NewtonRd(v, NewtonRd(v, NewtonRd(v, from)))) :
          v \in {a}})

\* One step of Newton's iteration for the square root of the integer a, x in hundredths
NewtonD(a, x) ==
    Only({(v[2] + (v[1] \div v[2]) * 10000 + ((v[1] % v[2]) * 10000) \div v[2]) \div 2 :
          v \in {<<a, x>>}})

\* Math.sqrt of an integer between 3527584 and 3690000, in hundredths
SqrtD(a) == Only({NewtonD(v, NewtonD(v, NewtonD(v, 192100))) : v \in {a}})

----------------------------------------------------------------------------
(* Ladder rows.  A row is the 12-element array of the source with its elements named   *)
(* after the LadderRow type: userid, elo, username, w, l, t, glicko, rd, gxe, games,    *)
(* lastUpdate, h2h.  The elements from glicko to lastUpdate hold whatever the code     *)
(* stored at that index: a number, a string, NaN or nothing.                           *)

\* A JavaScript number (n hundredths), NaN, a string, and undefined.  The string "#"
\* with n stands for the decimal text of the number n.
Num(n) == [k |-> "num", n |-> n, s |-> ""]
NaN == [k |-> "nan", n |-> 0, s |-> ""]
Str(s) == [k |-> "str", n |-> 0, s |-> s]
NumText(n) == [k |-> "str", n |-> n, s |-> "#"]
Undefined == [k |-> "undefined", n |-> 0, s |-> ""]

\* Number(v), also the conversion an arithmetic operator or a comparison applies
ToNumber(v) ==
    CASE v.k = "num" -> v
      [] v.k = "str" /\ v.s = "#" -> Num(v.n)
      [] v.k = "str" /\ v.s = "" -> Num(0)
      [] OTHER -> NaN

\* String(v) as Array.join applies it (undefined gives the empty string)
ToText(v) ==
    CASE v.k = "num" -> NumText(v.n)
      [] v.k = "nan" -> Str("NaN")
      [] v.k = "undefined" -> Str("")
      [] OTHER -> v

\* a || b
Truthy(v) == (v.k = "num" /\ v.n # 0) \/ (v.k = "str" /\ v.s # "")
OrElse(a, b) == IF Truthy(a) THEN a ELSE b

IsNum(v) == v.k = "num"

\* The head-to-head element: nothing (the array has 11 elements), or the JSON text of a
\* mapping opponent -> <<w, l, t>>
NoH2H == [present |-> FALSE, map |-> EmptyMap]
H2H(map) == [present |-> TRUE, map |-> map]

\* new Date().toString(): time is not modelled
Now == "now"

\* Lines 417-444: the K-factor.  games: any value (a comparison with something that is
\* not a number is false)
KFactor(oldElo, score, foeElo, games) ==
    LET K0 == IF IsNum(games) /\ games.n < 2000 THEN 3200
              ELSE IF IsNum(games) /\ games.n < 5000 THEN 2400
              ELSE 1600
        K1 == IF oldElo < 110000 THEN Min(K0 + 800, 3200)
              ELSE IF oldElo > 160000 THEN Max(K0 - 400, 1200)
              ELSE K0
        ratingDiff == IF oldElo >= foeElo THEN oldElo - foeElo ELSE foeElo - oldElo
        lowerRated == Min(oldElo, foeElo)
    IN  IF ratingDiff > 20000
        THEN IF oldElo = lowerRated /\ score > 50 THEN (K1 * 11) \div 10
             ELSE IF oldElo # lowerRated /\ score < 50 THEN (K1 * 105) \div 100
             ELSE K1
        ELSE K1

\* Lines 415-449.  oldElo, foeElo, score: numbers in hundredths; games: any value
newEloOf(oldElo, score, foeElo, games) ==
    Only({v[1] + SignedMul(KFactor(v[1], v[2], v[3], v[4]),
                           v[2] * 10000 - Sigma6((v[3] - v[1]) * 25)) :
          v \in {<<oldElo, score, foeElo, ToNumber(games)>>}})

\* The Elo formula without the floor
calculateElo_NoFloor(oldElo, score, foeElo, games) == newEloOf(oldElo, score, foeElo, games)

\* Line 451: return Math.max(newElo, 1000)
calculateElo(oldElo, score, foeElo, games) ==
    Only({Max(newElo, 100000) : newElo \in {newEloOf(oldElo, score, foeElo, games)}})

\* g(deviation)^2 = 1 / (1 + 3 q^2 deviation^2 / pi^2), in millionths
gSquared(deviation) ==
    Only({LongDiv6(1000000, 1000000 + FixMulRound((d * d) \div 100, 100724)) :
          d \in {deviation}})

\* Lines 396-409 for numbers.  r, dev, oppR, score in hundredths; g2, g, E in millionths;
\* the result is <<newRating, finalRd>> in hundredths.
GlickoOf(r, dev, oppR, g2, g, E, score) ==
    Only({Only({Only({
        <<RoundDiv(r * 100 + SignedMul(FixMulRound(FixMulRound(575646, variance), g),
                                       score * 10000 - E), 1000) * 10,
          RoundDiv(Max(1000, Min(35000, newRd)), 10) * 10>> :
        newRd \in {SqrtRd(variance, dev)}}) :
        \* 1 / (1 / rd^2 + 1 / d_squared), in hundredths
        variance \in {FixMulRound((dev * dev) \div 100,
                          LongDiv6(1000000,
                                   1000000 + RoundDiv(FixMulRound((dev * dev) \div 100, invD),
                                                      100)))}}) :
        \* 1 / d_squared, in units of 10^-12
        invD \in {FixMulRound(FixMulRound(33136863, g2), FixMulRound(E, 1000000 - E))}})

\* Lines 387-410.  All arguments are values; the result is <<newRating, finalRd>>.
\* Arithmetic on something that is not a number gives NaN, and Math.max and Math.min
\* of NaN are NaN.
calculateGlicko(rating, rd, opponentRating, opponentRd, score) ==
    Only({IF ~(IsNum(v[1]) /\ IsNum(v[2]) /\ IsNum(v[3]) /\ IsNum(v[4]))
          THEN <<NaN, NaN>>
          ELSE Only({Only({Only({Only({
                   <<Num(new[1]), Num(new[2])>> :
                   new \in {GlickoOf(v[1].n, v[2].n, v[3].n, g2, g, E, v[5])}}) :
                   E \in {Sigma6(-SignedMul(g, (v[1].n - v[3].n) * 25))}}) :
                   g \in {SqrtG(g2)}}) :
                   g2 \in {gSquared(v[4].n)}}) :
          v \in {<<ToNumber(rating), ToNumber(rd), ToNumber(opponentRating),
                   ToNumber(opponentRd), score>>}})

\* Lines 362-382.  rating, rd: any values.  "Unknown" > 100 and NaN > 100 are false,
\* and the formula on something that is not a number yields NaN.
calculateGXE(rating, rd) ==
    Only({IF IsNum(v[2]) /\ v[2].n > 10000 THEN Str("Unknown")
          ELSE IF ~(IsNum(v[2]) /\ IsNum(v[1])) THEN NaN
          ELSE Only({
                   \* pi / denominator in units of 10^-12, times 1500 - rating
                   Num(RoundDiv(Sigma6(SignedMul(LongDiv6(3141593, denominator),
                                                 150000 - v[1].n)), 100)) :
                   denominator \in {SqrtD(FixMulRound((v[2].n * v[2].n) \div 10, 15906)
                                          + 3527584)}}) :
          v \in {<<ToNumber(rating), ToNumber(rd)>>}})

\* updateH2H that counts every result as a win
updateH2H_AlwaysWin(playerRow, opponentId, result) ==
    Only({LET h2hData == IF row.h2h.present THEN row.h2h.map ELSE EmptyMap
              old == IF MapHas(h2hData, opponentId) THEN h2hData[opponentId]
                     ELSE <<0, 0, 0>>
          IN  [row EXCEPT !.h2h = H2H(MapSet(h2hData, opponentId,
                                             <<old[1] + 1, old[2], old[3]>>))] :
          row \in {playerRow}})

\* Lines 457-472: JSON.parse(playerRow[11] || '{}'), the counter of the result
\* incremented, JSON.stringify
updateH2H(playerRow, opponentId, result) ==
    Only({LET h2hData == IF row.h2h.present THEN row.h2h.map ELSE EmptyMap
              old == IF MapHas(h2hData, opponentId) THEN h2hData[opponentId]
                     ELSE <<0, 0, 0>>
              new == CASE result = "win"  -> <<old[1] + 1, old[2], old[3]>>
                       [] result = "loss" -> <<old[1], old[2] + 1, old[3]>>
                       [] OTHER           -> <<old[1], old[2], old[3] + 1>>
          IN  [row EXCEPT !.h2h = H2H(MapSet(h2hData, opponentId, new))] :
          row \in {playerRow}})

\* Lines 134-138: the row pushed for a user who is not on the ladder
NewRow(username) ==
    [userid |-> toID(username), elo |-> 100000, username |-> username,
     w |-> 0, l |-> 0, t |-> 0,
     glicko |-> Num(150000), rd |-> Num(13000), gxe |-> Num(5000), games |-> Num(0),
     lastUpdate |-> Str(Now), h2h |-> H2H(EmptyMap)]

\* Lines 128-140, createIfNeeded = true: <<index (from 0), rows>>
indexOfUser(rows, username) ==
    Only({Only({IF found # {} THEN <<SetMin(found) - 1, list>>
                ELSE <<Len(list), Append(list, NewRow(username))>> :
                found \in {{i \in 1..Len(list) : list[i].userid = toID(username)}}}) :
          list \in {rows}})

\* games++ on any value
Incremented(games) ==
    Only({IF IsNum(g) THEN Num(g.n + 100) ELSE NaN : g \in {ToNumber(games)}})

\* Lines 188-220
updateRow(row, score, foeElo, foeGlicko, foeRd) ==
    Only({Only({
        [old EXCEPT !.elo = calculateElo(old.elo, score, foeElo, old.games),
                    !.glicko = glicko[1], !.rd = glicko[2],
                    !.gxe = calculateGXE(glicko[1], glicko[2]),
                    !.games = Incremented(old.games),
                    !.w = IF score > 60 THEN @ + 1 ELSE @,
                    !.l = IF score > 60 THEN @ ELSE IF score < 40 THEN @ + 1 ELSE @,
                    !.t = IF score > 60 \/ score < 40 THEN @ ELSE @ + 1,
                    !.lastUpdate = Str(Now)] :
        glicko \in {calculateGlicko(old.glicko, old.rd, foeGlicko, foeRd, score)}}) :
        old \in {row}})

\* rows[i] with i counted from 0
At(rows, i) == rows[i + 1]

\* rows.splice(i, 1) and rows.splice(i, 0, row), i counted from 0
RemoveAt(rows, i) == SubSeq(rows, 1, i) \o SubSeq(rows, i + 2, Len(rows))
InsertAt(rows, i, row) == SubSeq(rows, 1, i) \o <<row>> \o SubSeq(rows, i + 1, Len(rows))

\* Line 281 (297): while (newIndex > 0 && ladder[newIndex - 1][1] <= newElo) newIndex--
RECURSIVE ScanUp(_, _, _)
ScanUp(rows, newIndex, newElo) ==
    IF newIndex > 0 /\ At(rows, newIndex - 1).elo <= newElo
    THEN ScanUp(rows, newIndex - 1, newElo)
    ELSE newIndex

\* Line 282 (298): while (newIndex === index || (ladder[newIndex] && ladder[newIndex][1] > newElo))
\* newIndex++
RECURSIVE ScanDown(_, _, _, _)
ScanDown(rows, newIndex, index, newElo) ==
    IF newIndex = index \/ (newIndex < Len(rows) /\ At(rows, newIndex).elo > newElo)
    THEN ScanDown(rows, newIndex + 1, index, newElo)
    ELSE newIndex

\* Lines 280-293 (296-305): the row at index is moved to its new place; the result is
\* <<rows, the index of the row that was at other>>
MoveRow(rows, index, other) ==
    Only({Only({
        IF newIndex # v[2] /\ newIndex # v[2] + 1
        THEN LET target == IF newIndex > v[2] THEN newIndex - 1 ELSE newIndex
                 other1 == IF v[3] > v[2] THEN v[3] - 1 ELSE v[3]
             IN  <<InsertAt(RemoveAt(v[1], v[2]), target, At(v[1], v[2])),
                   IF other1 >= target THEN other1 + 1 ELSE other1>>
        ELSE <<v[1], v[3]>> :
        newIndex \in {ScanDown(v[1], ScanUp(v[1], v[2], At(v[1], v[2]).elo), v[2],
                               At(v[1], v[2]).elo)}}) :
        v \in {<<rows, index, other>>}})

\* Lines 254-272: both rows updated from the values read before either update, then
\* the head-to-head data of both
UpdateBoth(before, p1index, p2index, p1id, p2id, p1score, p2score) ==
    Only({[before EXCEPT
              ![p1index + 1] =
                  updateH2H(updateRow(p[1], p1score, p[2].elo, p[2].glicko, p[2].rd), p2id,
                            IF p1score > 60 THEN "win"
                            ELSE IF p1score < 40 THEN "loss" ELSE "tie"),
              ![p2index + 1] =
                  updateH2H(updateRow(p[2], p2score, p[1].elo, p[1].glicko, p[1].rd), p1id,
                            IF p1score > 60 THEN "loss"
                            ELSE IF p1score < 40 THEN "win" ELSE "tie")] :
          p \in {<<At(before, p1index), At(before, p2index)>>}})

\* Lines 234-310 on a loaded ladder, for two different users: the rows after the call.
\* p1score in hundredths: 100 (win), 0 (loss), 50 (tie), negative (invalidated battle).
updateRating(rows, p1name, p2name, p1score0) ==
    Only({Only({Only({
        MoveRow(moved1[1], moved1[2], moved1[2])[1] :
        moved1 \in {MoveRow(UpdateBoth(i2[2], i1[1], i2[1], toID(p1name), toID(p2name),
                                       IF p1score0 < 0 THEN 0 ELSE p1score0,
                                       IF p1score0 < 0 THEN 0 ELSE 100 - p1score0),
                            i1[1], i2[1])}}) :
        i2 \in {indexOfUser(i1[2], p2name)}}) :
        i1 \in {indexOfUser(rows, p1name)}})

\* The text of a whole number (a counter)
CountText(c) == NumText(c * 100)

\* A line of the file: its first columns as texts, and the H2H_Data column if the line
\* has one
Line(cols, h2h) == [cols |-> cols, h2h |-> h2h]
ColumnsOf(line) == Len(line.cols) + (IF line.h2h.present THEN 1 ELSE 0)

\* row[i] of a split line, i counted from 0 (the H2H_Data column is never read)
Col(line, i) == IF i < Len(line.cols) THEN line.cols[i + 1] ELSE Undefined

\* Number(row[i]) of a column that holds a counter
CountOf(line, i) == ToNumber(Col(line, i)).n \div 100

\* Lines 68-75: a line with 9 columns or more
LoadNewFormat(line) ==
    [userid |-> toID(Col(line, 1).s), elo |-> ToNumber(Col(line, 0)).n,
     username |-> Col(line, 1).s,
     w |-> CountOf(line, 2), l |-> CountOf(line, 3), t |-> CountOf(line, 4),
     glicko |-> OrElse(ToNumber(Col(line, 5)), Num(13000)),
     rd |-> OrElse(ToNumber(Col(line, 6)), Num(5000)),
     gxe |-> OrElse(ToNumber(Col(line, 7)),
                    Num((CountOf(line, 2) + CountOf(line, 3) + CountOf(line, 4)) * 100)),
     games |-> Col(line, 8),
     lastUpdate |-> OrElse(Col(line, 9), Str("{}")),
     h2h |-> NoH2H]

\* Lines 76-86: a line with fewer columns.  The array literal has one element less
\* than the first one: rd lands at index 6, gxe at 7, games at 8, row[5] at 9, '{}' at 10.
LoadLegacy(line) ==
    LET games == CountOf(line, 2) + CountOf(line, 3) + CountOf(line, 4)
        rd == Max(3000, 13000 - games * 200)
        gxe == calculateGXE(ToNumber(Col(line, 0)), Num(rd))
    IN  [userid |-> toID(Col(line, 1).s), elo |-> ToNumber(Col(line, 0)).n,
         username |-> Col(line, 1).s,
         w |-> CountOf(line, 2), l |-> CountOf(line, 3), t |-> CountOf(line, 4),
         glicko |-> Num(rd),
         rd |-> gxe,
         gxe |-> Num(games * 100),
         games |-> Col(line, 5),
         lastUpdate |-> Str("{}"),
         h2h |-> NoH2H]

\* Lines 62-91: the rows of a file (no file: no rows)
load(content) ==
    [i \in 1..Len(content.lines) |->
        IF ColumnsOf(content.lines[i]) >= 9 THEN LoadNewFormat(content.lines[i])
        ELSE LoadLegacy(content.lines[i])]

\* Lines 112-114: row.slice(1).join('\t')
SaveLine(row) ==
    Line(<<ToText(Num(row.elo)), Str(row.username),
           CountText(row.w), CountText(row.l), CountText(row.t),
           ToText(row.glicko), ToText(row.rd), ToText(row.gxe), ToText(row.games),
           ToText(row.lastUpdate)>>,
         row.h2h)

\* Lines 101-117: an empty ladder is not written
save(rows, content) ==
    IF Len(rows) = 0 THEN content
    ELSE [exists |-> TRUE, lines |-> [i \in 1..Len(rows) |-> SaveLine(rows[i])]]

\* Lines 43-46: the cached ladder, read from the file at the first use
getLadder(cache, content) == IF cache.loaded THEN cache.rows ELSE load(content)

----------------------------------------------------------------------------
(* The rating store of one format: updates, restarts, and the file it starts with *)

\* Number of players who take part in rated battles.
MaxLadderPlayers == 3
\* Number of updateRating calls.
MaxUpdates == 3

LadderNames == {Roster[i] : i \in 1..Min(MaxLadderPlayers, Len(Roster))}

\* p1score as the callers pass it: win, loss, tie, and -1 for an invalidated battle
Scores == {100, 0, 50, -100}

\* A ladder file of the 5-column format (Elo, Username, W, L, T, Last_update), sorted,
\* with one player of 23 games and one of 3
LegacyTsv ==
    [exists |-> TRUE,
     lines |-> <<Line(<<NumText(120000), Str("Alice"), CountText(20), CountText(3),
                        CountText(0), Str("then")>>, NoH2H),
                 Line(<<NumText(100000), Str("Bob"), CountText(1), CountText(2),
                        CountText(0), Str("then")>>, NoH2H)>>]

\* A ladder file of the 11-column format: the file that two rated battles on an empty
\* ladder leave (Alice beat Bob, then Bob beat Carol)
SavedTsv ==
    save(updateRating(updateRating(<<>>, "Alice", "Bob", 100), "Bob", "Carol", 100), NoTsv)

StartFiles == {NoTsv, LegacyTsv, SavedTsv}

InitLadder ==
    /\ state = EmptyState
    /\ file = NoFile
    /\ queue = <<>>
    /\ inflight = {}
    /\ rejected = FALSE
    /\ clock = 0
    /\ started = <<>>
    /\ suspended = <<>>
    /\ failedAt = 0
    /\ called = NoCall
    /\ ladder = NotLoaded
    /\ NoStores
    /\ tsv \in StartFiles

bracketVars == <<state, file, queue, inflight, rejected, started, suspended, failedAt, called>>

\* updateRating: the ladder is loaded if it has not been, both rows are updated and
\* moved, and the ladder is saved
UpdateRating(p1name, p2name, p1score) ==
    /\ clock < MaxUpdates
    /\ clock' = clock + 1
    /\ ladder' = [loaded |-> TRUE,
                  rows |-> updateRating(getLadder(ladder, tsv), p1name, p2name, p1score)]
    /\ tsv' = save(ladder'.rows, tsv)
    /\ UNCHANGED <<bracketVars, storeVars>>

\* Any other first use of the ladder (getTop, getRating, visualize)
GetLadder ==
    /\ ~ladder.loaded
    /\ ladder' = [loaded |-> TRUE, rows |-> load(tsv)]
    /\ UNCHANGED <<tsv, clock, bracketVars, storeVars>>

\* The server process ends and a new one starts: the cache is empty again
RestartLadder ==
    /\ ladder.loaded
    /\ ladder' = NotLoaded
    /\ UNCHANGED <<tsv, clock, bracketVars, storeVars>>

NextLadder ==
    \/ \E p1name \in LadderNames, p2name \in LadderNames, p1score \in Scores :
          p1name # p2name /\ UpdateRating(p1name, p2name, p1score)
    \/ GetLadder
    \/ RestartLadder

SpecLadder == InitLadder /\ [][NextLadder]_vars

----------------------------------------------------------------------------
(* The store objects of one format: calls that overlap.  A call runs until it awaits;   *)
(* the continuations that are ready run one after the other, oldest first, before the   *)
(* next call arrives, a file read finishes or a stream touches the file.                *)

\* Number of calls (getLadder by a command, updateRating by a battle that ends).
MaxCalls == 3

\* The file the process starts with: none, or a saved ladder
StoreFiles == {NoTsv, SavedTsv}

\* The battles that end: p1name, p2name, p1score
UpdateArgs == {<<"Alice", "Bob", 100>>, <<"Bob", "Carol", 50>>}

\* A continuation: the rest of a call after "await this.getLadder()"
Continuation(op, s, args) == [op |-> op, store |-> s, args |-> args]

InitStores ==
    /\ state = EmptyState
    /\ file = NoFile
    /\ queue = <<>>
    /\ inflight = {}
    /\ rejected = FALSE
    /\ clock = 0
    /\ started = <<>>
    /\ suspended = <<>>
    /\ failedAt = 0
    /\ called = NoCall
    /\ ladder = NotLoaded
    /\ NoStores
    /\ tsv \in StoreFiles

\* Lines 44-46 and 52-61: getLadder, and load up to its first await.  A store that has
\* a ladderPromise keeps it; otherwise load returns the cached array if there is one,
\* and waits for the file if there is none (the cache itself is set at line 90, after
\* the read).
StartLoad(st, cache) ==
    IF st.ladderPromise # "none" THEN st
    ELSE IF cache # 0 THEN [st EXCEPT !.ladder = cache, !.ladderPromise = "resolved"]
    ELSE [st EXCEPT !.ladderPromise = "pending"]

\* "await this.getLadder()" of continuation k: <<the store, the ready continuations>>
AwaitLadder(st, k, ready) ==
    IF st.ladderPromise = "resolved" THEN <<st, Append(ready, k)>>
    ELSE <<[st EXCEPT !.waiters = Append(@, k)], ready>>

\* A call that starts with "await this.getLadder()" on store s, up to that await
CallAwaiting(s, op, args) ==
    /\ microtasks = <<>>
    /\ clock < MaxCalls
    /\ clock' = clock + 1
    /\ LET aw == AwaitLadder(StartLoad(stores[s], ladderCaches),
                             Continuation(op, s, args), microtasks)
       IN  /\ stores' = [stores EXCEPT ![s] = aw[1]]
           /\ microtasks' = aw[2]
    /\ UNCHANGED <<arrays, ladderCaches, streams, hist, tsv, ladder, bracketVars>>

\* A command reads the ladder (ladder-stats.ts line 31, getTop, getRating, visualize)
CallGetLadder(s) == CallAwaiting(s, "get", <<>>)

\* Line 239: a battle ends
CallUpdateRating(s, args) == CallAwaiting(s, "update", args)

\* Lines 62-91: the read of load finishes; the rows are built, published in the cache
\* and in the store, and the callers that wait for the store's ladderPromise are ready
FinishRead(s) ==
    /\ microtasks = <<>>
    /\ stores[s].ladderPromise = "pending"
    /\ arrays' = Append(arrays, load(tsv))
    /\ ladderCaches' = Len(arrays) + 1
    /\ stores' = [stores EXCEPT ![s] = [@ EXCEPT !.ladder = Len(arrays) + 1,
                                                 !.ladderPromise = "resolved",
                                                 !.waiters = <<>>]]
    /\ microtasks' = stores[s].waiters
    /\ hist' = [hist EXCEPT !.reads = @ + 1]
    /\ UNCHANGED <<streams, tsv, clock, ladder, bracketVars>>

\* The caller of getLadder receives the array of its store
ResumeGet ==
    /\ microtasks # <<>>
    /\ Head(microtasks).op = "get"
    /\ microtasks' = Tail(microtasks)
    /\ hist' = [hist EXCEPT !.seen = @ \cup {stores[Head(microtasks).store].ladder}]
    /\ UNCHANGED <<arrays, ladderCaches, stores, streams, tsv, clock, ladder, bracketVars>>

\* Lines 241-313: updateRating after its await: the rows of the store's array are
\* updated and moved, and save is called.  Lines 106-108: save returns at once if the
\* store is saving; otherwise it sets the flag and awaits getLadder.
ResumeUpdate ==
    /\ microtasks # <<>>
    /\ Head(microtasks).op = "update"
    /\ LET k == Head(microtasks)
           s == k.store
           ref == stores[s].ladder
       IN  /\ arrays' = [arrays EXCEPT ![ref] =
                            updateRating(@, k.args[1], k.args[2], k.args[3])]
           /\ IF stores[s].saving
              THEN /\ microtasks' = Tail(microtasks)
                   /\ UNCHANGED stores
              ELSE /\ microtasks' = Append(Tail(microtasks), Continuation("save", s, <<>>))
                   /\ stores' = [stores EXCEPT ![s].saving = TRUE]
           /\ hist' = [hist EXCEPT !.seen = @ \cup {ref},
                                   !.save = [store |-> s, wasSaving |-> stores[s].saving,
                                             went |-> ~stores[s].saving]]
    /\ UNCHANGED <<ladderCaches, streams, tsv, clock, ladder, bracketVars>>

\* Lines 108-119: save after its await.  An empty ladder is not written; otherwise a
\* stream is created and the lines of the rows as they are now are handed to it with
\* stream.write calls that are not awaited.  In both cases the flag is cleared.
ResumeSave ==
    /\ microtasks # <<>>
    /\ Head(microtasks).op = "save"
    /\ LET s == Head(microtasks).store
           rows == arrays[stores[s].ladder]
       IN  /\ stores' = [stores EXCEPT ![s].saving = FALSE]
           /\ streams' = IF Len(rows) = 0 THEN streams
                         ELSE Append(streams, [store |-> s, opened |-> FALSE,
                                               lines |-> save(rows, NoTsv).lines])
    /\ microtasks' = Tail(microtasks)
    /\ UNCHANGED <<arrays, ladderCaches, hist, tsv, clock, ladder, bracketVars>>

\* The lines of a file after a stream has written its lines from the start of the file
Overwritten(old, lines) == lines \o SubSeq(old, Len(lines) + 1, Len(old))

\* The stream opens the file for writing: the file exists and is empty
StreamOpen(i) ==
    /\ microtasks = <<>>
    /\ ~streams[i].opened
    /\ streams' = [streams EXCEPT ![i].opened = TRUE]
    /\ tsv' = [exists |-> TRUE, lines |-> <<>>]
    /\ UNCHANGED <<arrays, ladderCaches, stores, microtasks, hist, clock, ladder, bracketVars>>

\* The stream writes what it was handed, from the start of the file, and ends
StreamWrite(i) ==
    /\ microtasks = <<>>
    /\ streams[i].opened
    /\ streams' = RemoveAt(streams, i - 1)
    /\ tsv' = [exists |-> TRUE, lines |-> Overwritten(tsv.lines, streams[i].lines)]
    /\ UNCHANGED <<arrays, ladderCaches, stores, microtasks, hist, clock, ladder, bracketVars>>

NextStores ==
    \/ \E s \in StoreIds : CallGetLadder(s)
    \/ \E s \in StoreIds, args \in UpdateArgs : CallUpdateRating(s, args)
    \/ \E s \in StoreIds : FinishRead(s)
    \/ ResumeGet
    \/ ResumeUpdate
    \/ ResumeSave
    \/ \E i \in 1..Len(streams) : StreamOpen(i)
    \/ \E i \in 1..Len(streams) : StreamWrite(i)

SpecStores == InitStores /\ [][NextStores]_vars

----------------------------------------------------------------------------
(* Properties *)

\* The indices of the matches a step keeps (the same bracket before and after)
Kept == 1..Min(Len(state.matches), Len(state'.matches))

\* The map entries that still lead to the match at index i
Registered(s, i) == {p \in DOMAIN s.playerMatches : s.playerMatches[p] = i}

\* Match i goes from not complete to complete in this step
BecomesComplete(i) ==
    state.matches[i].status # "complete" /\ state'.matches[i].status = "complete"

\* This step adds one win to player 1 (player 2) of match i and that is win number
\* floor(bestOf / 2) + 1
P1Reaches(i) ==
    /\ state'.matches[i].p1wins = state.matches[i].p1wins + 1
    /\ state'.matches[i].p2wins = state.matches[i].p2wins
    /\ state'.matches[i].p1wins = (state.bestOf \div 2) + 1
P2Reaches(i) ==
    /\ state'.matches[i].p2wins = state.matches[i].p2wins + 1
    /\ state'.matches[i].p1wins = state.matches[i].p1wins
    /\ state'.matches[i].p2wins = (state.bestOf \div 2) + 1

C1_Step(i) ==
    LET after == state'.matches[i]
    IN  /\ BecomesComplete(i) <=> (state.matches[i].status # "complete"
                                    /\ (P1Reaches(i) \/ P2Reaches(i)))
        /\ BecomesComplete(i) /\ P1Reaches(i) =>
              after.winner = after.player1 /\ after.winnerDisplay = after.player1Display
        /\ BecomesComplete(i) /\ P2Reaches(i) =>
              after.winner = after.player2 /\ after.winnerDisplay = after.player2Display
        /\ BecomesComplete(i) =>
              /\ Registered(state', i) = {}
              /\ \A p \in {after.player1, after.player2} :
                    MapHas(state'.playerMatches, p) =>
                        /\ state.matches[state'.playerMatches[p]].status # "active"
                        /\ state'.matches[state'.playerMatches[p]].status = "active"

\* C1: with bestOf = N a match becomes complete exactly in the step that brings one of
\* its players to floor(N/2)+1 wins; winner and winnerDisplay then name that player, and
\* both players' map entries are removed: no entry leads to the match any more, and a
\* player of it has an entry after the call only for a match that the same call started
\* (the advancement that follows the removal).
C1_CompleteAtThreshold == [][\A i \in Kept : C1_Step(i)]_vars

----------------------------------------------------------------------------

Matches == 1..Len(state.matches)

LastRound == IF state.matches = <<>> THEN 0
             ELSE SetMax({state.matches[i].round : i \in Matches})

\* The matches of a round in array order, and the smallest matchId among them
InRound(r) == {i \in Matches : state.matches[i].round = r}
FirstIdOf(r) == SetMin({state.matches[i].matchId : i \in InRound(r)})

\* The match of round r+1 at relative index k (0-based), as an index into matches
NthOfRound(r, k) ==
    CHOOSE i \in InRound(r) : Cardinality({j \in InRound(r) : j < i}) = k

\* The next-round match that match i feeds
TargetOf(i) ==
    NthOfRound(state.matches[i].round + 1,
               (state.matches[i].matchId - FirstIdOf(state.matches[i].round)) \div 2)

\* C2: while the tournament is not frozen, the winner of every complete match of a round
\* below the last is in slot player1 or player2 of the next-round match at relative
\* index floor((matchId - first matchId of the round) / 2).
C2_WinnerAdvanced ==
    (state.initialized /\ ~state.frozen) =>
        \A i \in Matches :
            (state.matches[i].status = "complete" /\ state.matches[i].round < LastRound) =>
                state.matches[i].winner \in {state.matches[TargetOf(i)].player1,
                                             state.matches[TargetOf(i)].player2}

\* C3: every identity with an entry in playerMatches is player1 or player2 of the match
\* stored under it, and that match is active or waiting.
C3_EntriesAreLive ==
    \A id \in DOMAIN state.playerMatches :
        LET match == state.matches[state.playerMatches[id]]
        IN  /\ id \in {match.player1, match.player2}
            /\ match.status \in {"active", "waiting"}

\* The map holds entries of both kinds at once: the two players of an active second-round
\* match that an advancement registered, and the lone player of a waiting match that a
\* load registered.
C3_Witness ==
    /\ \E i \in Matches :
          /\ state.matches[i].round = 2 /\ state.matches[i].status = "active"
          /\ state.matches[i].player1 # state.matches[i].player2
          /\ Registered(state, i) = {state.matches[i].player1, state.matches[i].player2}
    /\ \E i \in Matches :
          /\ state.matches[i].status = "waiting"
          /\ Registered(state, i) # {}
    /\ \E i \in Matches : state.matches[i].status = "complete" /\ Registered(state, i) = {}

\* C4: an identity has an entry in playerMatches if and only if some match that is not
\* complete holds it in slot player1 or player2.
C4_EntryIffInOpenMatch ==
    \A id \in Ids :
        MapHas(state.playerMatches, id) <=>
            \E i \in Matches : /\ state.matches[i].status # "complete"
                               /\ id \in {state.matches[i].player1, state.matches[i].player2}

\* The earliest round whose matches are not all over (minimum round over active and waiting matches)
EarliestIncomplete ==
    LET open == {i \in Matches : state.matches[i].status \in {"active", "waiting"}}
    IN  IF open = {} THEN state.currentRound
        ELSE SetMin({state.matches[i].round : i \in open})

\* C5: canMatch(a, b) is true exactly when the tournament is initialized, a and b are the
\* two players of one active match and, if frozen, that match is in the earliest
\* incomplete round.
C5_CanMatchExact ==
    \A a \in IdArgs, b \in IdArgs :
        canMatch(state, a, b) <=>
            /\ state.initialized
            /\ \E i \in Matches :
                  /\ state.matches[i].status = "active"
                  /\ \/ (state.matches[i].player1 = a /\ state.matches[i].player2 = b)
                     \/ (state.matches[i].player1 = b /\ state.matches[i].player2 = a)
                  /\ state.frozen => state.matches[i].round = EarliestIncomplete

\* C6: canSearch(id) is true exactly when id is a player of an active or waiting match
\* and, if frozen, that match is in the earliest incomplete round.
C6_CanSearchExact ==
    \A id \in Ids :
        canSearch(state, id) <=>
            \E i \in Matches :
                /\ state.matches[i].status \in {"active", "waiting"}
                /\ id \in {state.matches[i].player1, state.matches[i].player2}
                /\ state.frozen => state.matches[i].round = EarliestIncomplete

\* winner and loser are the two players of one active match
ActivePair(winner, loser) ==
    \E i \in Matches :
        /\ state.matches[i].status = "active"
        /\ \/ (state.matches[i].player1 = winner /\ state.matches[i].player2 = loser)
           \/ (state.matches[i].player2 = winner /\ state.matches[i].player1 = loser)

\* C7: a recordWin call whose winner and loser are not the two players of one active
\* match changes neither the state nor the file.
C7_IgnoredUnlessActivePair ==
    [][\A winner \in IdArgs, loser \in IdArgs :
          (RecordWin(winner, loser) /\ ~ActivePair(winner, loser)) =>
              (state' = state /\ file' = file)]_vars

\* A step of the frozen tournament made by recordWin
FrozenWin ==
    /\ state.initialized /\ state.frozen
    /\ \E winner \in IdArgs, loser \in IdArgs :
          RecordedMatch(state, winner, loser) # 0 /\ RecordWin(winner, loser)

\* The slots of the matches after round r that hold identity id, as <<index, slot>>
SlotsOf(s, r, id) ==
    {<<i, "player1">> : i \in {j \in 1..Len(s.matches) :
                                  s.matches[j].round = r /\ s.matches[j].player1 = id}}
    \cup
    {<<i, "player2">> : i \in {j \in 1..Len(s.matches) :
                                  s.matches[j].round = r /\ s.matches[j].player2 = id}}

\* Match i is complete, its round is not the last, and its winner is in no slot of the
\* match it feeds: a winner whose advancement is pending
PendingWinner(i) ==
    /\ state.matches[i].status = "complete"
    /\ state.matches[i].round < LastRound
    /\ state.matches[i].winner \notin {state.matches[TargetOf(i)].player1,
                                       state.matches[TargetOf(i)].player2}

\* C8: while the tournament is frozen, a recordWin call that reaches the threshold
\* completes its match and changes no slot of any match; a resume puts every pending
\* winner in exactly one slot of exactly one next-round match, the one its match feeds.
C8_FreezeThenResume ==
    [][/\ FrozenWin =>
            /\ \A i \in Kept :
                  /\ state'.matches[i].player1 = state.matches[i].player1
                  /\ state'.matches[i].player2 = state.matches[i].player2
                  /\ (state.matches[i].status # "complete"
                      /\ (P1Reaches(i) \/ P2Reaches(i))) => BecomesComplete(i)
       /\ (state.initialized /\ state.frozen /\ Resume) =>
            \A i \in Kept :
                PendingWinner(i) =>
                    /\ Cardinality(SlotsOf(state', state.matches[i].round + 1,
                                           state.matches[i].winner)) = 1
                    /\ state.matches[i].winner \in {state'.matches[TargetOf(i)].player1,
                                                    state'.matches[TargetOf(i)].player2}
      ]_vars

\* C9: saving an initialized controller's state and loading the file into a fresh
\* controller gives the same state back.
C9_SaveLoadIdentity ==
    state.initialized => loadFromCSV(EmptyState, saveContent(state)) = state

\* C10: at most one file write is executing; the writes start in the order of the
\* saveToCSV calls that requested them (ascending tickets, and every closure still queued
\* is behind every write that has started); and the content of a write is the whole
\* state of one moment that is not earlier than the mutation that requested the write.
C10_WritesSerialized ==
    /\ Cardinality(inflight) <= 1
    /\ \A i \in 1..Len(started), j \in 1..Len(started) : i < j => started[i] < started[j]
    /\ \A i \in 1..Len(queue), j \in 1..Len(queue) : i < j => queue[i].ticket < queue[j].ticket
    /\ \A i \in 1..Len(queue), j \in 1..Len(started) : started[j] < queue[i].ticket
    /\ \A w \in inflight :
          /\ w.since <= w.ticket /\ w.ticket <= w.asOf
          /\ w.asOf = clock => w.content = saveContent(state)

\* A write is executing, requested by a call that waited at an await, with content from
\* a later moment than its request, while the closure of a later call is queued behind it.
C10_Witness ==
    /\ queue # <<>>
    /\ \E w \in inflight : w.since < w.ticket /\ w.ticket < w.asOf
    /\ Len(started) >= 2

\* Nothing is left to do: no closure queued, no write executing, no call at an await
Quiescent == queue = <<>> /\ inflight = {} /\ suspended = <<>>

\* C11: once every queued write has finished and no call is under way, the file of an
\* initialized controller encodes exactly the in-memory state, unless the write that
\* the latest saveToCSV call requested is one that failed (quiescent after a saving
\* call, the latest ticket is the clock).
C11_FileCatchesUp ==
    (Quiescent /\ state.initialized /\ failedAt # clock) => file = saveContent(state)

\* C12: once every write has finished and no call is under way, a controller that is
\* not initialized (reset was the last call, or nothing was ever created) has no file
\* that loadOrInitialize would load: a restart leaves it idle.
C12_ResetLeavesNothing ==
    (Quiescent /\ ~state.initialized) => ~Loadable(file)

\* Largest number of first-round rounds k for which the pairings of 2^k players are examined.
MaxSeedRounds == 5

\* The seats (match, slot) of a list of pairings that hold this seed
SeatsOf(pairings, seed) ==
    {<<i, j>> \in (1..Len(pairings)) \X {1, 2} : pairings[i][j] = seed}

\* The number of the first-round match that holds this seed
MatchOfSeed(pairings, seed) == CHOOSE i \in 1..Len(pairings) : seed \in {pairings[i][1], pairings[i][2]}

PairingsOK(N) ==
    LET pairings == generateStandardPairings(N)
    IN  /\ Len(pairings) = N \div 2
        /\ \A seed \in 1..N : Cardinality(SeatsOf(pairings, seed)) = 1
        /\ \A i \in 1..Len(pairings) : \A j \in {1, 2} : pairings[i][j] \in 1..N
        /\ N >= 4 => /\ MatchOfSeed(pairings, 1) \in 1..(N \div 4)
                     /\ MatchOfSeed(pairings, 2) \in (N \div 4 + 1)..(N \div 2)
        /\ N = 8 => pairings = << <<1, 8>>, <<4, 5>>, <<2, 7>>, <<3, 6>> >>

\* The player list read back from the first round: the display name seated at seed k
SeededList(s) ==
    LET pairings == generateStandardPairings(s.participants)
    IN  [k \in 1..s.participants |->
            LET seat == CHOOSE st \in SeatsOf(pairings, k) : TRUE
            IN  IF seat[2] = 1 THEN s.matches[seat[1]].player1Display
                ELSE s.matches[seat[1]].player2Display]

\* The lists initialize may seed: the list of the call, or one of its shuffles
SeededInputs ==
    PlayerLists \cup UNION {shuffleArray(players) : players \in {l \in PlayerLists : Len(l) <= MaxShuffled}}

\* C13: for N = 2^k players (k >= 1) the first-round pairings use each seed 1..N exactly
\* once; for N >= 4 seed 1 is in one of the matches 1..N/4 and seed 2 in one of the
\* matches N/4+1..N/2; for N = 8 the pairs are (1,8), (4,5), (2,7), (3,6) in this order;
\* and the first round of every bracket seats the k-th player of its list at seed k.
C13_StandardPairings ==
    /\ \A k \in 1..MaxSeedRounds : PairingsOK(2^k)
    /\ state.initialized => SeededList(state) \in SeededInputs

\* An 8-player bracket whose second match pairs seeds 4 and 5, third match seeds 2 and 7
C13_Witness ==
    /\ state.initialized /\ state.participants = 8
    /\ state.matches[2].player1Display = Roster[4] /\ state.matches[2].player2Display = Roster[5]
    /\ state.matches[3].player1Display = Roster[2] /\ state.matches[3].player2Display = Roster[7]

\* The seats (match, slot) of the first round
FirstRoundSeats(s) ==
    {<<i, slot>> \in (1..Len(s.matches)) \X {"player1", "player2"} : s.matches[i].round = 1}

\* Two seats of the first round hold the same identity
DuplicateSeats(s) ==
    \E a, b \in FirstRoundSeats(s) :
        a # b /\ s.matches[a[1]][a[2]] = s.matches[b[1]][b[2]]

\* C14: initialize with a list in which two display names canonicalize to the same
\* identity fails and leaves the state as it was: no step produces a bracket in which
\* one identity holds two first-round seats.
C14_DuplicateNamesRejected ==
    [][DuplicateSeats(state') => DuplicateSeats(state)]_vars

\* The step changes neither the tournament state nor the file
NothingChanged == state' = state /\ file' = file

\* C15: each rejected administrative call raises an error and leaves the whole state as
\* it was: initialize on an initialized controller or with a list of fewer than 2 names
\* or of a length that is not a power of two; freeze on a controller that is not
\* initialized or is frozen; resume on a controller that is not initialized or not frozen.
C15_RejectedCallsChangeNothing ==
    [][/\ called'.op = "initialize" =>
             /\ (\/ state.initialized
                 \/ called'.count < 2
                 \/ called'.count \notin {2^k : k \in 1..MaxSeedRounds}) <=> called'.threw
             /\ called'.threw => NothingChanged
       /\ called'.op = "freeze" =>
             /\ (~state.initialized \/ state.frozen) <=> called'.threw
             /\ called'.threw => NothingChanged
       /\ called'.op = "resume" =>
             /\ (~state.initialized \/ ~state.frozen) <=> called'.threw
             /\ called'.threw => NothingChanged
      ]_vars

\* A rejected call has just left a bracket with a decided match as it was:
\* resume on a tournament that is not frozen
C15_Witness ==
    /\ called.op = "resume" /\ called.threw
    /\ state.initialized /\ ~state.frozen
    /\ \E i \in 1..Len(state.matches) : state.matches[i].status = "complete"

\* The status changes a match may go through, one at a time
StatusMoves ==
    {<<"pending", "waiting">>, <<"waiting", "active">>, <<"active", "complete">>,
     <<"pending", "active">>}

\* C16: between initialize and reset the status of a match changes only along
\* pending -> waiting -> active -> complete or pending -> active: never backwards, and
\* a complete match never changes status again.
C16_StatusOnlyForward ==
    [][state.initialized /\ state'.initialized =>
          \A i \in Kept :
              \/ state'.matches[i].status = state.matches[i].status
              \/ <<state.matches[i].status, state'.matches[i].status>> \in StatusMoves]_vars

\* The matches of round r, as indices
InRoundOf(s, r) == {i \in 1..Len(s.matches) : s.matches[i].round = r}

\* A bracket of P players: P - 1 matches, numbered 1..P-1 in array order, P / 2^r of them
\* in each round r with 2^r <= P and none in another round, round by round ascending
ShapeOK(s) ==
    LET P == s.participants
    IN  /\ Len(s.matches) = P - 1
        /\ \A i \in 1..Len(s.matches) : s.matches[i].matchId = i
        /\ \A i \in 1..Len(s.matches) : s.matches[i].round >= 1 /\ 2^(s.matches[i].round) <= P
        /\ \A r \in 1..P : 2^r <= P => Cardinality(InRoundOf(s, r)) = P \div 2^r
        /\ \A i, j \in 1..Len(s.matches) : i < j => s.matches[i].round <= s.matches[j].round

\* C17: every bracket reached from initialize with P players by recordWin, freeze and
\* resume has P / 2^r matches in each round r = 1..log2(P), P - 1 in all, numbered
\* 1..P-1 ascending round by round; and no step that leaves the controller initialized
\* adds, removes or renumbers a match or moves it to another round.
C17_BracketShape ==
    [][/\ state'.initialized => ShapeOK(state')
       /\ state.initialized /\ state'.initialized =>
             /\ state'.participants = state.participants
             /\ Len(state'.matches) = Len(state.matches)
             /\ \A i \in Kept : /\ state'.matches[i].matchId = state.matches[i].matchId
                                /\ state'.matches[i].round = state.matches[i].round]_vars

\* An 8-player bracket (rounds of 4, 2 and 1 matches) in which a second-round match has
\* been decided
C17_Witness ==
    /\ state.initialized /\ state.participants = 8 /\ Len(state.matches) = 7
    /\ \E i \in InRoundOf(state, 2) : state.matches[i].status = "complete"
    /\ InRoundOf(state, 3) = {7}

\* The rows are in order of elo, highest first
Sorted(rows) == \A i \in 1..(Len(rows) - 1) : rows[i].elo >= rows[i + 1].elo

\* C18: an updateRating call on a ladder that is sorted by elo (non-increasing) leaves
\* it sorted, for every pair of players, every position of the two rows and every
\* score (win, loss, tie and the negative score of an invalidated battle).
C18_LadderStaysSorted ==
    [][Sorted(getLadder(ladder, tsv)) => Sorted(ladder'.rows)]_vars

\* C19: in every state of the ladder every row has an elo of 1000 or more: a new row
\* starts at 1000 and no update takes a row below 1000.
C19_EloAtLeast1000 ==
    \A i \in 1..Len(ladder.rows) : ladder.rows[i].elo >= 100000

\* A row that an update has written (it has head-to-head data) and that has lost a
\* battle while at 1000: it is still at 1000
C19_Witness ==
    /\ ladder.loaded
    /\ \E i \in 1..Len(ladder.rows) :
          /\ ladder.rows[i].h2h.present
          /\ ladder.rows[i].l > 0 /\ ladder.rows[i].w = 0 /\ ladder.rows[i].t = 0
          /\ ladder.rows[i].elo = 100000

\* C20: in every state of the ladder, the state right after loading a file of either
\* format included, the rating deviation of every row is a number from 10 to 350.
C20_RdInRange ==
    \A i \in 1..Len(ladder.rows) :
        IsNum(ladder.rows[i].rd) /\ ladder.rows[i].rd.n \in 1000..35000

\* The gxe field of a row agrees with its rating deviation
GxeAgrees(row) ==
    IF IsNum(row.rd) /\ row.rd.n > 10000
    THEN row.gxe = Str("Unknown")
    ELSE IsNum(row.gxe) /\ row.gxe.n \in 0..10000

\* C21: in every state of the ladder (after an update, and after a saved ladder is
\* loaded again) the gxe field of a row is "Unknown" if and only if the rating
\* deviation of the row is greater than 100; otherwise it is a percentage from 0 to 100.
C21_GxeUnknownIffProvisional ==
    \A i \in 1..Len(ladder.rows) : GxeAgrees(ladder.rows[i])

\* getH2H (lines 477-484) with no record read as no battles: <<w, l, t>>
RecordOf(row, opponentId) ==
    IF row.h2h.present /\ MapHas(row.h2h.map, opponentId) THEN row.h2h.map[opponentId]
    ELSE <<0, 0, 0>>

\* C22: after any sequence of updateRating calls, for every pair of players (a, b) the
\* head-to-head record of a against b has as many wins as b's record against a has
\* losses, as many losses as b's has wins, and as many ties as b's has ties.
C22_HeadToHeadSymmetric ==
    \A i, j \in 1..Len(ladder.rows) :
        LET a == ladder.rows[i]
            b == ladder.rows[j]
        IN  /\ RecordOf(a, b.userid)[1] = RecordOf(b, a.userid)[2]
            /\ RecordOf(a, b.userid)[2] = RecordOf(b, a.userid)[1]
            /\ RecordOf(a, b.userid)[3] = RecordOf(b, a.userid)[3]

\* Two players who have met three times: a win, a loss and a tie for the first
C22_Witness ==
    \E i, j \in 1..Len(ladder.rows) :
        /\ i # j
        /\ RecordOf(ladder.rows[i], ladder.rows[j].userid) = <<1, 1, 1>>
        /\ RecordOf(ladder.rows[j], ladder.rows[i].userid) = <<1, 1, 1>>

\* The sum of the win counters minus the sum of the loss counters of the rows
RECURSIVE WinsMinusLosses(_)
WinsMinusLosses(rows) ==
    IF rows = <<>> THEN 0 ELSE Head(rows).w - Head(rows).l + WinsMinusLosses(Tail(rows))

\* C23: the sum of the win counters over all rows equals the sum of the loss counters,
\* after any sequence of updateRating calls from an empty ladder and with any score
\* (an invalidated, negative score included): no call changes the difference of the
\* two sums, which is 0 on an empty ladder.
C23_WinsEqualLosses ==
    [][ladder'.loaded =>
          WinsMinusLosses(ladder'.rows) = WinsMinusLosses(getLadder(ladder, tsv))]_vars

\* C24: in every state of the ladder every row has w + l + t equal to its number of
\* games played (the value of the field as a number; a reloaded row holds it as text).
C24_CountersSumToGames ==
    \A i \in 1..Len(ladder.rows) :
        /\ IsNum(ToNumber(ladder.rows[i].games))
        /\ ToNumber(ladder.rows[i].games).n
              = (ladder.rows[i].w + ladder.rows[i].l + ladder.rows[i].t) * 100


\* C25: callers that access the ladder of the format for the first time while a load
\* is still running, through the same store object or through different ones, all
\* obtain the same row array (an update through one is visible through the other),
\* and the file is read once.
C25_ConcurrentFirstAccessShares ==
    /\ Cardinality(hist.seen) <= 1
    /\ hist.reads <= 1

\* A save of store s is in progress: its continuation after "await this.getLadder()"
\* has not run yet
SaveInProgress(s) ==
    \E i \in 1..Len(microtasks) : microtasks[i].op = "save" /\ microtasks[i].store = s

\* The flag of a store is set exactly while a save of the store is in progress, and a
\* save call made while it is set goes no further
FlagFollowsSave ==
    /\ \A s \in StoreIds : stores[s].saving <=> SaveInProgress(s)
    /\ hist.save.wasSaving => ~hist.save.went

\* C26: while one save() of a store is in progress every further save() call on the
\* store returns without writing, so that two saves of the store never write the
\* ladder file at the same time; when the save in progress finishes the in-flight flag
\* is cleared and the next save() call writes.
C26_OneSaveWritesAtATime ==
    /\ FlagFollowsSave
    /\ \A i, j \in 1..Len(streams) : streams[i].store = streams[j].store => i = j

\* The row of a user, or the row that indexOfUser would create for the user
RowOf(rows, username) ==
    IF \E i \in 1..Len(rows) : rows[i].userid = toID(username)
    THEN rows[SetMin({i \in 1..Len(rows) : rows[i].userid = toID(username)})]
    ELSE NewRow(username)

\* A player at elo 1000 who has played fewer than 20 games
NewcomerAtFloor(row) == row.elo = 100000 /\ row.w + row.l + row.t < 20

\* What a win of p1 over p2 makes of the rows p1old and p2old
WinRecorded(p1old, p2old, p1new, p2new) ==
    /\ p1new.elo = 101600
    /\ p2new.elo = 100000
    /\ p1new.w = p1old.w + 1
    /\ p2new.l = p2old.l + 1
    /\ RecordOf(p1new, p2old.userid) =
           <<RecordOf(p1old, p2old.userid)[1] + 1, RecordOf(p1old, p2old.userid)[2],
             RecordOf(p1old, p2old.userid)[3]>>
    /\ RecordOf(p2new, p1old.userid) =
           <<RecordOf(p2old, p1old.userid)[1], RecordOf(p2old, p1old.userid)[2] + 1,
             RecordOf(p2old, p1old.userid)[3]>>

\* C27: for two players who both have elo 1000 and fewer than 20 games (players not on
\* the ladder included), updateRating with a win for p1 gives p1 elo 1016, leaves p2 at
\* 1000, adds one to p1's wins and to p2's losses, and adds a win to p1's head-to-head
\* record against p2 and a loss to p2's record against p1.
C27_WinBetweenNewcomers ==
    [][\A p1name \in LadderNames, p2name \in LadderNames :
          ( /\ p1name # p2name
            /\ clock' = clock + 1
            /\ NewcomerAtFloor(RowOf(getLadder(ladder, tsv), p1name))
            /\ NewcomerAtFloor(RowOf(getLadder(ladder, tsv), p2name))
            /\ ladder'.rows = updateRating(getLadder(ladder, tsv), p1name, p2name, 100) )
          => WinRecorded(RowOf(getLadder(ladder, tsv), p1name),
                         RowOf(getLadder(ladder, tsv), p2name),
                         RowOf(ladder'.rows, p1name), RowOf(ladder'.rows, p2name))]_vars

\* The number of players in a match
PlayersIn(match) ==
    (IF match.player1 # "" THEN 1 ELSE 0) + (IF match.player2 # "" THEN 1 ELSE 0)

\* The match at index mi completes in this step, below the last round, in a tournament
\* that is not frozen
CompletesUnfrozen(mi) ==
    /\ ~state.frozen
    /\ Len(state'.matches) = Len(state.matches)
    /\ state.matches[mi].status # "complete"
    /\ state'.matches[mi].status = "complete"
    /\ state.matches[mi].round < maxRound(state)

\* The winner of the match at index mi has been placed into the match at index ni
PlacedInto(mi, ni) ==
    LET winner == state'.matches[mi].winner
        before == state.matches[ni]
        after == state'.matches[ni]
    IN  /\ IF before.player1 = ""
           THEN after.player1 = winner /\ after.player2 = before.player2
           ELSE after.player2 = winner /\ after.player1 = before.player1
        /\ PlayersIn(after) = 1 => after.status = "waiting"
        /\ PlayersIn(after) = 2 =>
              /\ after.status = "active"
              /\ MapHas(state'.playerMatches, after.player1)
              /\ state'.playerMatches[after.player1] = ni
              /\ MapHas(state'.playerMatches, after.player2)
              /\ state'.playerMatches[after.player2] = ni
              /\ state'.currentRound = Max(state.currentRound, after.round)

\* C28: when the tournament is not frozen and a match of a round below the last one
\* completes, its winner is placed into slot player1 of the target match if that slot
\* is empty and into slot player2 otherwise; a target with one player becomes waiting;
\* a target with two players becomes active, both players get an entry for the target
\* in the player map, and currentRound becomes the maximum of its old value and the
\* target's round.
C28_WinnerPlacedInNextRound ==
    [][\A mi \in 1..Len(state.matches) :
          CompletesUnfrozen(mi) =>
              /\ NextMatchOf(state, state.matches[mi]) # 0
              /\ PlacedInto(mi, NextMatchOf(state, state.matches[mi]))]_vars

\* The match at index mi is complete below the last round and has a target match
Feeds(s, mi) ==
    /\ s.matches[mi].status = "complete"
    /\ s.matches[mi].winner # Null
    /\ s.matches[mi].winner # ""
    /\ s.matches[mi].round < maxRound(s)
    /\ NextMatchOf(s, s.matches[mi]) # 0

\* Line 724: the winner of the match at index mi is in a slot of its target match
AlreadyAdvanced(s, mi) ==
    LET nextMatch == s.matches[NextMatchOf(s, s.matches[mi])]
    IN  nextMatch.player1 = s.matches[mi].winner \/ nextMatch.player2 = s.matches[mi].winner

\* The winner of the match at index mi is held back
Blocked(s, mi) == Feeds(s, mi) /\ ~AlreadyAdvanced(s, mi)

\* This step is a resume that went through
Resumed ==
    /\ state.initialized /\ state.frozen
    /\ state'.initialized /\ ~state'.frozen
    /\ Len(state'.matches) = Len(state.matches)

\* C29: resume advances the blocked winners in ascending matchId order: of two
\* complete matches that feed the same next-round match and whose winners were held
\* back, the winner of the lower matchId is in slot player1 and the winner of the
\* higher matchId in slot player2 after resume, whatever the order in which the two
\* completed; a complete match whose winner is already in the next round is left as it
\* is, and so is the slot that holds its winner.
C29_ResumeAdvancesInMatchOrder ==
    [][Resumed =>
          \A a \in 1..Len(state.matches) :
              /\ \A b \in 1..Len(state.matches) :
                    ( /\ Blocked(state, a) /\ Blocked(state, b)
                      /\ state.matches[a].matchId < state.matches[b].matchId
                      /\ NextMatchOf(state, state.matches[a]) = NextMatchOf(state, state.matches[b]) )
                    => LET nextMatch == state'.matches[NextMatchOf(state, state.matches[a])]
                       IN  /\ nextMatch.player1 = state.matches[a].winner
                           /\ nextMatch.player2 = state.matches[b].winner
              /\ (Feeds(state, a) /\ AlreadyAdvanced(state, a)) =>
                    LET before == state.matches[NextMatchOf(state, state.matches[a])]
                        after == state'.matches[NextMatchOf(state, state.matches[a])]
                        winner == state.matches[a].winner
                    IN  /\ state'.matches[a] = state.matches[a]
                        /\ (after.player1 = winner) = (before.player1 = winner)
                        /\ (after.player2 = winner) = (before.player2 = winner)]_vars

\* recordWin(winner, loser) called until the match at index mi is complete; the state
\* is returned as it is at the first call that does not record on that match
RECURSIVE PlayedOut(_, _, _, _)
PlayedOut(s, mi, winner, loser) ==
    IF s.matches[mi].status = "complete" \/ RecordedMatch(s, winner, loser) # mi THEN s
    ELSE PlayedOut(recordWin(s, winner, loser), mi, winner, loser)

\* The match at index mi completed with the player in the given slot as winner
CompletedBy(s, mi, slot) ==
    IF slot = 1 THEN PlayedOut(s, mi, s.matches[mi].player1, s.matches[mi].player2)
    ELSE PlayedOut(s, mi, s.matches[mi].player2, s.matches[mi].player1)

\* A win of the player in the given slot of the match at index mi is recorded on that
\* match (lines 357-368)
CanWin(s, mi, slot) ==
    IF slot = 1
    THEN RecordedMatch(s, s.matches[mi].player1, s.matches[mi].player2) = mi
    ELSE RecordedMatch(s, s.matches[mi].player2, s.matches[mi].player1) = mi

\* The match at index mi is complete and its winner is in a slot of its target match
WinnerAdvanced(s, mi) == Feeds(s, mi) /\ AlreadyAdvanced(s, mi)

\* Two states have the same players and the same status in every match of the round
SameRound(s, t, round) ==
    \A n \in 1..Len(s.matches) :
        s.matches[n].round = round =>
            /\ {s.matches[n].player1, s.matches[n].player2}
                   = {t.matches[n].player1, t.matches[n].player2}
            /\ s.matches[n].status = t.matches[n].status

\* Completing the matches at indices a and b in the two orders, with the players in
\* slots sa and sb as winners, comes to the same
Commute(s, a, sa, b, sb) ==
    LET ab == CompletedBy(CompletedBy(s, a, sa), b, sb)
        ba == CompletedBy(CompletedBy(s, b, sb), a, sa)
    IN  /\ WinnerAdvanced(ab, a) /\ WinnerAdvanced(ab, b)
        /\ WinnerAdvanced(ba, a) /\ WinnerAdvanced(ba, b)
        /\ SameRound(ab, ba, s.matches[a].round + 1)

\* C30: for any two distinct active matches of the same round (below the last) of a
\* tournament that is not frozen, completing them in either order places both winners
\* in the next round, neither placement overwrites or blocks the other, and every
\* match of the next round has the same set of players and the same status in both
\* orders.
C30_CompletionsCommute ==
    (state.initialized /\ ~state.frozen) =>
        \A a \in 1..Len(state.matches), b \in 1..Len(state.matches) :
            ( /\ a < b
              /\ state.matches[a].status = "active"
              /\ state.matches[b].status = "active"
              /\ state.matches[a].round = state.matches[b].round
              /\ state.matches[a].round < maxRound(state) )
            => \A sa \in 1..2, sb \in 1..2 :
                  (CanWin(state, a, sa) /\ CanWin(state, b, sb))
                  => Commute(state, a, sa, b, sb)

\* The player lists of the battles that end: no player, one, two, three
BattleLists ==
    {<<>>, <<"alice">>, <<"alice", "bob", "carol">>}
    \cup {<<p1id, p2id>> : p1id \in IdArgs, p2id \in IdArgs}

\* The winners reported for a battle: either player, nobody, somebody else
ReportedWinners(playerids) ==
    {playerids[i] : i \in 1..Len(playerids)} \cup {"", "ivan"}

\* A battle between the two players of an active match, won by one of them
BracketBattle(winnerid, playerids) ==
    /\ Len(playerids) = 2
    /\ ActivePair(playerids[1], playerids[2])
    /\ winnerid \in {playerids[1], playerids[2]}

\* The wins recorded in all matches
RECURSIVE WinsRecorded(_, _)
WinsRecorded(s, i) ==
    IF i > Len(s.matches) THEN 0
    ELSE s.matches[i].p1wins + s.matches[i].p2wins + WinsRecorded(s, i + 1)

\* A notification that is not about a bracket battle leaves the state as it is, and a
\* notification that changes the state is about a bracket battle and records one win
IgnoresOtherBattles(winnerid, playerids) ==
    LET after == onBattleEnd(state, winnerid, playerids)
    IN  /\ ~BracketBattle(winnerid, playerids) => after = state
        /\ after # state => WinsRecorded(after, 1) = WinsRecorded(state, 1) + 1

\* C31: a battle-end notification leaves the bracket state unchanged when the battle
\* does not have exactly two players, when the two players are not the two players of
\* an active match, or when the reported winner is neither of them; a notification
\* that changes the state is about a battle between the two players of an active match
\* with one of them as winner, and it records exactly one win.
C31_BattleEndRecordsOrIgnores ==
    \A playerids \in BattleLists :
        \A winnerid \in ReportedWinners(playerids) :
            IgnoresOtherBattles(winnerid, playerids)

\* Alice and Heidi play an active match: their battle won by Heidi is recorded, their
\* battle without a winner is ignored, and so is a battle of Heidi against a player of
\* another active match
C31_Witness ==
    /\ ActivePair("alice", "heidi")
    /\ ActivePair("dave", "eve")
    /\ onBattleEnd(state, "heidi", <<"alice", "heidi">>) # state
    /\ onBattleEnd(state, "", <<"alice", "heidi">>) = state
    /\ onBattleEnd(state, "heidi", <<"heidi", "eve">>) = state
    /\ onBattleEnd(state, "heidi", <<"alice", "heidi", "eve">>) = state

\* The row a legacy line stands for: gamesPlayed = w + l + t, deviation =
\* max(30, 130 - 2 gamesPlayed), gxe by the GXE formula from the rating and that
\* deviation, an empty head-to-head mapping, each in the field updateRow uses
LegacyFieldsInPlace(row, line) ==
    LET games == CountOf(line, 2) + CountOf(line, 3) + CountOf(line, 4)
        rd == Max(3000, 13000 - games * 200)
    IN  /\ row.games = Num(games * 100)
        /\ row.rd = Num(rd)
        /\ row.gxe = calculateGXE(ToNumber(Col(line, 0)), Num(rd))
        /\ row.h2h = H2H(EmptyMap)

\* C32: loading a line of the legacy format gives a row whose gamesPlayed field is
\* w + l + t, whose rating-deviation field is max(30, 130 - 2 gamesPlayed), whose gxe
\* field is the GXE formula's value for the rating and that deviation, and whose
\* head-to-head field is the empty mapping, each in the field position that rows
\* created by updateRating use.
C32_LegacyLineLoadsInPlace ==
    \A i \in 1..Len(tsv.lines) :
        ColumnsOf(tsv.lines[i]) < 9 => LegacyFieldsInPlace(load(tsv)[i], tsv.lines[i])

\* The position of a user's row
PositionOf(rows, userid) == SetMin({i \in 1..Len(rows) : rows[i].userid = userid})

\* The users on a ladder
UsersOn(rows) == {rows[i].userid : i \in 1..Len(rows)}

\* Rows of equal elo are in the same order in both ladders, and a row that is only in
\* the second ladder is behind the rows of its elo that are in both
TiesKeepOrder(before, after) ==
    \A a \in UsersOn(after), b \in UsersOn(after) :
        ( /\ a \in UsersOn(before)
          /\ after[PositionOf(after, a)].elo = after[PositionOf(after, b)].elo
          /\ b \in UsersOn(before) =>
                /\ before[PositionOf(before, a)].elo = before[PositionOf(before, b)].elo
                /\ PositionOf(before, a) < PositionOf(before, b)
          /\ a # b )
        => PositionOf(after, a) < PositionOf(after, b)

\* C33: of two rows with equal elo the one inserted into the ladder earlier comes
\* first: an update changes the order of no two rows whose elo is equal before and
\* after it (a loss at the 1000 floor does not move the row ahead of rows inserted
\* before it), and a row it creates comes behind the rows of equal elo.
C33_TiesInInsertionOrder ==
    [][ladder'.loaded => TiesKeepOrder(getLadder(ladder, tsv), ladder'.rows)]_vars

\* C34: a failed file write affects only the call that requested it: the write that
\* every other mutating call requested is attempted, before or after the failure (no
\* closure leaves the chain of a running process without having been run).
C34_EveryWriteAttempted ==
    [][(queue # <<>> /\ queue' = Tail(queue) /\ clock' = clock)
          => started' = Append(started, Head(queue).ticket)]_vars

\* Every call on the stores has returned and every save has finished
StoresQuiet ==
    /\ microtasks = <<>>
    /\ streams = <<>>
    /\ \A s \in StoreIds : stores[s].ladderPromise # "pending" /\ ~stores[s].saving

\* C35: no ladder update is lost by a dropped save: with updateRating calls on one
\* store only, overlapping in any way, once the last call has returned and every save
\* has finished, the ladder file holds the lines of the in-memory ladder with every
\* update made to it (if the ladder is not empty).
C35_FileHoldsEveryUpdate ==
    ( /\ StoresQuiet
      /\ stores[1].ladder # 0
      /\ \A s \in StoreIds \ {1} : stores[s] = NewStore
      /\ Len(arrays[stores[1].ladder]) > 0
      /\ hist.save.store = 1 )
    => tsv.lines = save(arrays[stores[1].ladder], NoTsv).lines

\* Two field values are the same: equal, or the same number (as a number or as its text)
SameValue(a, b) ==
    \/ a = b
    \/ IsNum(ToNumber(a)) /\ IsNum(ToNumber(b)) /\ ToNumber(a).n = ToNumber(b).n

\* Two head-to-head fields hold the same mapping (no data is the empty mapping)
SameMapping(a, b) ==
    (IF a.present THEN a.map ELSE EmptyMap) = (IF b.present THEN b.map ELSE EmptyMap)

\* Two rows have the same values in the same fields
SameRow(a, b) ==
    /\ a.userid = b.userid /\ a.elo = b.elo /\ a.username = b.username
    /\ a.w = b.w /\ a.l = b.l /\ a.t = b.t
    /\ SameValue(a.glicko, b.glicko)
    /\ SameValue(a.rd, b.rd)
    /\ SameValue(a.gxe, b.gxe)
    /\ SameValue(a.games, b.games)
    /\ SameValue(a.lastUpdate, b.lastUpdate)
    /\ SameMapping(a.h2h, b.h2h)

\* C36: saving a ladder with save() and loading the written file with load() in a new
\* process gives, for every row, the same values in the same fields: elo, name, w, l,
\* t, glicko, rating deviation, gxe ("Unknown" stays "Unknown"), gamesPlayed,
\* lastUpdate and the head-to-head mapping.
C36_SaveLoadRoundTrip ==
    (ladder.loaded /\ Len(ladder.rows) > 0) =>
        /\ Len(load(save(ladder.rows, NoTsv))) = Len(ladder.rows)
        /\ \A i \in 1..Len(ladder.rows) :
              SameRow(load(save(ladder.rows, NoTsv))[i], ladder.rows[i])

\* The scores of a best-of-N bracket are those of series played to floor(N/2) + 1 wins
ScoresInRange(s) ==
    \A i \in 1..Len(s.matches) :
        LET match == s.matches[i]
            toWin == (s.bestOf \div 2) + 1
        IN  /\ match.p1wins <= toWin
            /\ match.p2wins <= toWin
            /\ ~(match.p1wins = toWin /\ match.p2wins = toWin)
            /\ match.status = "complete" <=> (match.p1wins = toWin \/ match.p2wins = toWin)
            /\ match.status = "complete" =>
                  match.winner = (IF match.p1wins = toWin THEN match.player1
                                  ELSE match.player2)

\* A match that is complete keeps its score
CompleteScoresKept ==
    \A i \in 1..Len(state.matches) :
        (state.matches[i].status = "complete" /\ state'.initialized) =>
            /\ state'.matches[i].p1wins = state.matches[i].p1wins
            /\ state'.matches[i].p2wins = state.matches[i].p2wins

\* C37: in every state reached from initialize with bestOf = N by recordWin, freeze and
\* resume, every match has p1wins and p2wins at most floor(N/2) + 1, at most one of
\* them equal to it, the match is complete exactly if one of them is, its winner is
\* then the player with that count, and a recordWin call after the completion does
\* not change the score.
C37_ScoresBounded == [][ScoresInRange(state') /\ CompleteScoresKept]_vars

\* A best-of-3 bracket with a series won 2-1, a series won 2-0 and the next match active
C37_Witness ==
    /\ state.bestOf = 3
    /\ \E i \in 1..Len(state.matches) :
          /\ state.matches[i].status = "complete"
          /\ state.matches[i].p1wins = 2 /\ state.matches[i].p2wins = 1
    /\ \E i \in 1..Len(state.matches) :
          /\ state.matches[i].status = "complete"
          /\ state.matches[i].p1wins = 0 /\ state.matches[i].p2wins = 2
    /\ \E i \in 1..Len(state.matches) :
          state.matches[i].status = "active" /\ state.matches[i].round = 2

\* The slots of the first round hold identities that differ from each other
DistinctEntrants(s) ==
    \A i, j \in 1..Len(s.matches) :
        (s.matches[i].round = 1 /\ s.matches[j].round = 1) =>
            /\ s.matches[i].player1 # s.matches[i].player2
            /\ i # j => {s.matches[i].player1, s.matches[i].player2}
                           \cap {s.matches[j].player1, s.matches[j].player2} = {}

\* The position of the match at index i among the matches of its round, from 0
RelativeIndex(s, i) == s.matches[i].matchId - firstMatchOfRound(s, s.matches[i].round)

\* The complete matches of the round before that of the match at index ni that lead
\* into it and were won by id
FeedersWonBy(s, ni, id) ==
    {mi \in 1..Len(s.matches) :
        /\ s.matches[mi].round + 1 = s.matches[ni].round
        /\ s.matches[mi].status = "complete"
        /\ s.matches[mi].winner = id
        /\ RelativeIndex(s, mi) \div 2 = RelativeIndex(s, ni)}

\* The slots of the match at index ni hold winners of its feeder matches
SlotsFromFeeders(s, ni) ==
    LET match == s.matches[ni]
    IN  /\ match.player1 # "" => FeedersWonBy(s, ni, match.player1) # {}
        /\ match.player2 # "" => FeedersWonBy(s, ni, match.player2) # {}
        /\ (match.player1 # "" /\ match.player2 # "") =>
              \E m1 \in FeedersWonBy(s, ni, match.player1),
                 m2 \in FeedersWonBy(s, ni, match.player2) : m1 # m2

\* The matches not yet complete that id is a player of
OpenMatchesOf(s, id) ==
    {i \in 1..Len(s.matches) :
        /\ s.matches[i].status # "complete"
        /\ id \in {s.matches[i].player1, s.matches[i].player2}}

\* C38: in every reachable state of a bracket initialized with distinct identities,
\* every non-empty slot of a match of round r+1 holds the winner of a complete match of
\* round r whose relative index divided by two is the index of that match, the two
\* slots of one match hold the winners of two different feeder matches, and no
\* identity is a player of two matches that are not complete.
C38_SlotsHoldFeederWinners ==
    (state.initialized /\ DistinctEntrants(state)) =>
        /\ \A ni \in 1..Len(state.matches) :
              state.matches[ni].round > 1 => SlotsFromFeeders(state, ni)
        /\ \A id \in Ids : Cardinality(OpenMatchesOf(state, id)) <= 1

\* The players that have lost a series: the player of a complete match who is not its
\* winner
Eliminated(s) ==
    {id \in Ids : \E i \in 1..Len(s.matches) :
        /\ s.matches[i].status = "complete"
        /\ id \in {s.matches[i].player1, s.matches[i].player2}
        /\ id # s.matches[i].winner}

\* The scores of all matches, in match order
SeriesScores(s) == [i \in 1..Len(s.matches) |-> <<s.matches[i].p1wins, s.matches[i].p2wins>>]

\* C39: a player who has lost a series has no entry in the player map in any later
\* state until reset, so canSearch and canMatch are false and getOpponent is none for
\* that player, and no recordWin call that names the player changes a score.
C39_EliminatedStaysOut ==
    \A id \in Eliminated(state) :
        /\ ~MapHas(state.playerMatches, id)
        /\ ~canSearch(state, id)
        /\ getOpponent(state, id) = Null
        /\ \A other \in IdArgs :
              /\ ~canMatch(state, id, other)
              /\ ~canMatch(state, other, id)
              /\ RecordedMatch(state, id, other) # 0 =>
                    SeriesScores(recordWin(state, id, other)) = SeriesScores(state)
              /\ RecordedMatch(state, other, id) # 0 =>
                    SeriesScores(recordWin(state, other, id)) = SeriesScores(state)

\* id has won a match of every round
WonEveryRound(s, id) ==
    \A r \in 1..maxRound(s) :
        \E i \in 1..Len(s.matches) :
            /\ s.matches[i].round = r
            /\ s.matches[i].status = "complete"
            /\ s.matches[i].winner = id

\* All participants - 1 matches are complete, nobody has a match, and the winner of
\* the final has won in every round
TournamentOver ==
    /\ state.initialized
    /\ Len(state.matches) = state.participants - 1
    /\ \A i \in 1..Len(state.matches) : state.matches[i].status = "complete"
    /\ state.playerMatches = EmptyMap
    /\ WonEveryRound(state, state.matches[Len(state.matches)].winner)

\* The progress half of C40, under SpecFair (a tournament that does not stay frozen and
\* whose active matches are played): a tournament that has started is played to its
\* end.
PlayedToTheEnd == state.initialized ~> TournamentOver

====
